---- MODULE Spec2Model ----
(***************************************************************************)
(* Easy Anki: the Leitner card state (main.py CardState), the weighted     *)
(* session selector (main.py choose_exam_set) and the three session        *)
(* runners (main.py main/run_round, gui.py QuizGUI, webgui.py /question).  *)
(*                                                                         *)
(* Time: the clock `now` counts ticks, Res ticks to the second; a stored   *)
(* timestamp is an ISO string at second precision, held here as the whole  *)
(* number of seconds it denotes.  An Optional[str] field is <<>> for None  *)
(* and <<s>> for a value.                                                  *)
(***************************************************************************)
EXTENDS Integers, Sequences, FiniteSets, TLC

VARIABLES
    runner,            \* which front end runs: "terminal", "gui", "web" ("card"/"select" in the unit specifications)
    pc,                \* position of the front end
    pool,              \* the filtered question pool (sequence of question ids)
    num,               \* requested number of questions
    set,               \* current sequence: qs of run_round / current_set / state['set']
    index,             \* cursor, 0-based as in the code
    wrong,             \* miss queue
    current_question,  \* gui.py self.current_question (<<>> = None)
    prog,              \* in-memory Progress Store: id -> CardState
    file,              \* persisted Progress Store (course_progress.json)
    now,               \* wall clock, in ticks
    initial,           \* the set selected at session start (main.py `initial`)
    rnd,               \* number of the pass in progress (main.py `rnd` - 1)
    missed,            \* history: ids answered incorrectly in the pass in progress
    reviewOf,          \* history: ids answered incorrectly in the pass before this one
    ev,                \* history: the last operation performed and its input
    answered,          \* history: number of answers taken so far
    card,              \* the card of the card-level specification
    origin,            \* how `card` was created: "default" or "loaded"
    w,                 \* choose_exam_set's list w / the weights srs_weight returned
    draw,              \* history: the last iteration of the sampling loop
    scored,            \* choose_special_set's list of scores, in pool order
    app_state,         \* webgui.py app_state: session id -> session state (<<>> = no entry)
    cookie,            \* the Flask session of each browser: its sid and pool_id
    poolfile,          \* data/progress_<pool_id>.json, by pool id
    hist,              \* history: what each session did, the answers each card received
    gamestate          \* data/gamestate_<user_id>.json, by user id

vars == <<runner, pc, pool, num, set, index, wrong, current_question, prog,
          file, now, initial, rnd, missed, reviewOf, ev, answered,
          card, origin, w, draw, scored, app_state, cookie, poolfile, hist,
          gamestate>>

\* the variables of the sampler, the scorer and the multi-session web server
aux == <<w, draw, scored, app_state, cookie, poolfile, hist, gamestate>>

----------------------------------------------------------------------------
(* Bounds of the model *)

MaxPool == 2          \* questions in the question bank
MaxNum == 2           \* largest requested session size
MaxNow == 1           \* the clock of the runners stops advancing at this tick
MaxCardNow == 3       \* the clock of the card specification stops at this tick
MaxAnswers == 3       \* answers one front end takes
MaxCardStreak == 5    \* cap on correct_streak in the card specification
MaxCardMisses == 2    \* cap on incorrect_count in the card specification
MaxSchedules == 2     \* promote()/demote() calls in the weight specification
MaxStarts == 2        \* sessions started on the web server
MaxSessAnswers == 2   \* answers posted to the web server
MaxLivePasses == 3    \* passes of one session in which an answer can be wrong
MaxSpecials == 1      \* special-review sessions started on the web server
Res == 2              \* clock ticks per second
Grain == 16           \* random.random() returns a multiple of 1/Grain

(* Program constants *)

Day == 86400          \* seconds in timedelta(days=1)
MaxBox == 5           \* min(5, box + 1)
GuiNum == 10          \* QuizGUI.num

None == <<>>
Some(x) == <<x>>

Min(a, b) == IF a <= b THEN a ELSE b

Labels == {"A", "B", "C", "D"}
\* what a front end can be handed besides a label: another letter, nothing
BadLabels == {"E", "none"}

Intervals == <<0, 1, 3, 7, 14>>
\* faulty variant: a card in box 5 weighing nothing
BaseWeightMastered == <<100, 60, 35, 20, 0>>

BaseWeight == <<100, 60, 35, 20, 10>>    \* hundredths

QIds == 1..MaxPool
\* the answers of the built-in questions, in order
Answer(q) == IF q <= 2 THEN "A" ELSE "B"

----------------------------------------------------------------------------
(* Sequences *)

RECURSIVE SumSeq(_)
SumSeq(s) == IF s = <<>> THEN 0 ELSE Head(s) + SumSeq(Tail(s))

Range(s) == {s[i] : i \in 1..Len(s)}

RemoveAt(s, i) == [j \in 1..(Len(s) - 1) |-> IF j < i THEN s[j] ELSE s[j + 1]]

Take(s, n) == [j \in 1..Min(n, Len(s)) |-> s[j]]

Bijections(n) == {f \in [1..n -> 1..n] : \A i, j \in 1..n : f[i] = f[j] => i = j}

\* every order random.shuffle can leave a list in
Shuffles(s) == {[i \in 1..Len(s) |-> s[f[i]]] : f \in Bijections(Len(s))}

IsPermutation(s, t) == t \in Shuffles(s)

NoDuplicates(s) == \A i, j \in 1..Len(s) : s[i] = s[j] => i = j

\* the sub-sequences filter_questions can return from qs
RECURSIVE SubSeqs(_)
SubSeqs(s) ==
    IF s = <<>> THEN {<<>>}
    ELSE LET rest == SubSeqs(Tail(s))
         IN  rest \cup {<<Head(s)>> \o r : r \in rest}

BUILTIN == [q \in 1..MaxPool |-> q]

----------------------------------------------------------------------------
(* CardState *)

DefaultCard ==
    [box |-> 1, correct_streak |-> 0, incorrect_count |-> 0,
     last_seen |-> None, due |-> None]

\* datetime.isoformat(timespec="seconds"): the sub-second part is cut off
IsoFormat(t) == t \div Res

\* datetime.fromisoformat of a second-precision string
FromIso(s) == s * Res

\* t1 is the clock read for due_date, t2 the later read for last_seen
Schedule(st, reset, t1, t2) ==
    LET days == IF reset THEN 0
                ELSE IF st.box \in 1..5 THEN Intervals[st.box] ELSE 0
        due_date == t1 + days * Day * Res
    IN  [st EXCEPT !.last_seen = Some(IsoFormat(t2)),
                   !.due = Some(IsoFormat(due_date))]

\* faulty variant: promote() without the cap at box 5
PromoteNoCap(st, t1, t2) ==
    Schedule([st EXCEPT !.correct_streak = @ + 1, !.box = @ + 1], FALSE, t1, t2)

\* faulty variant: promote() scheduling with the interval of the box it leaves
PromoteOldBox(st, t1, t2) ==
    [Schedule([st EXCEPT !.correct_streak = @ + 1], FALSE, t1, t2)
        EXCEPT !.box = Min(MaxBox, @ + 1)]

\* faulty variant: promote() clearing the record of misses
PromoteForgets(st, t1, t2) ==
    Schedule([st EXCEPT !.correct_streak = @ + 1, !.box = Min(MaxBox, @ + 1),
                        !.incorrect_count = 0], FALSE, t1, t2)

Promote(st, t1, t2) ==
    Schedule([st EXCEPT !.correct_streak = @ + 1, !.box = Min(MaxBox, @ + 1)],
             FALSE, t1, t2)

\* faulty variant: demote() leaving the card in its box
DemoteKeepsBox(st, t1, t2) ==
    Schedule([st EXCEPT !.correct_streak = 0, !.incorrect_count = @ + 1], TRUE, t1, t2)

\* faulty variant: demote() leaving the streak as it was
DemoteKeepsStreak(st, t1, t2) ==
    Schedule([st EXCEPT !.box = 1, !.incorrect_count = @ + 1], TRUE, t1, t2)

\* faulty variant: demote() stepping down one box, scheduled by that box
DemoteOneBox(st, t1, t2) ==
    Schedule([st EXCEPT !.correct_streak = 0,
                        !.box = IF @ > 1 THEN @ - 1 ELSE 1,
                        !.incorrect_count = @ + 1], FALSE, t1, t2)

Demote(st, t1, t2) ==
    Schedule([st EXCEPT !.correct_streak = 0, !.box = 1,
                        !.incorrect_count = @ + 1], TRUE, t1, t2)

----------------------------------------------------------------------------
(* Progress Store *)

EmptyStore == [q \in {} |-> DefaultCard]

\* prog.get(qid, CardState())
Get(store, q) == IF q \in DOMAIN store THEN store[q] ELSE DefaultCard

\* prog[qid] = st
Put(store, q, st) == [k \in DOMAIN store \cup {q} |-> IF k = q THEN st ELSE store[k]]

\* a last_seen or due text that datetime.fromisoformat rejects; its length
\* tells it from None (<<>>) and from an ISO text (<<s>>)
Garbled == <<0, 0>>

IsIso(d) == Len(d) = 1

(* JSON scalars as json.dump writes them and json.load reads them *)
JNull == [t |-> "null", iso |-> FALSE, v |-> 0]
JNum(n) == [t |-> "number", iso |-> FALSE, v |-> n]
JIso(sec) == [t |-> "string", iso |-> TRUE, v |-> sec]
JText == [t |-> "string", iso |-> FALSE, v |-> 0]

\* an entry of the top-level object: a JSON object with its members, or some
\* other JSON value
JObject(members) == [isobj |-> TRUE, members |-> members]
JOther == [isobj |-> FALSE, members |-> <<>>]

(* the content found at a path: no file, bytes that are not JSON, a JSON     *)
(* value that is not an object, or a JSON object with its entries by key     *)
Missing == [kind |-> "missing", entries |-> <<>>]
NotJson == [kind |-> "garbage", entries |-> <<>>]
JsonList == [kind |-> "list", entries |-> <<>>]
JsonObject(entries) == [kind |-> "object", entries |-> entries]

FieldNames == {"box", "correct_streak", "incorrect_count", "last_seen", "due"}

\* json.dump of an Optional[str]: None is written as null, a str as a string
DumpOptional(d) ==
    IF d = None THEN JNull ELSE IF IsIso(d) THEN JIso(d[1]) ELSE JText

\* json.load of that member, handed to CardState(**v) as it is
LoadOptional(j) ==
    IF j.t = "null" THEN None
    ELSE IF j.t = "string" /\ j.iso THEN Some(j.v) ELSE Garbled

\* dataclasses.asdict(v), as json.dump writes it
AsDict(st) ==
    JObject([box |-> JNum(st.box),
             correct_streak |-> JNum(st.correct_streak),
             incorrect_count |-> JNum(st.incorrect_count),
             last_seen |-> DumpOptional(st.last_seen),
             due |-> DumpOptional(st.due)])

\* CardState(**v): a member that v lacks takes the default of its field
CardStateOf(m) ==
    [box |-> IF "box" \in DOMAIN m THEN m.box.v ELSE DefaultCard.box,
     correct_streak |-> IF "correct_streak" \in DOMAIN m
                        THEN m.correct_streak.v ELSE DefaultCard.correct_streak,
     incorrect_count |-> IF "incorrect_count" \in DOMAIN m
                         THEN m.incorrect_count.v ELSE DefaultCard.incorrect_count,
     last_seen |-> IF "last_seen" \in DOMAIN m
                   THEN LoadOptional(m.last_seen) ELSE DefaultCard.last_seen,
     due |-> IF "due" \in DOMAIN m THEN LoadOptional(m.due) ELSE DefaultCard.due]

\* CardState(**v) raises TypeError: v is no mapping, or names an unknown field
CardStateRaises(e) == ~e.isobj \/ ~(DOMAIN e.members \subseteq FieldNames)

\* the try block of load_progress: json.load, raw.items(), CardState(**v)
LoadBody(content) ==
    IF \/ content.kind # "object"
       \/ \E k \in DOMAIN content.entries : CardStateRaises(content.entries[k])
    THEN [raised |-> TRUE, out |-> <<>>]
    ELSE [raised |-> FALSE,
          out |-> [k \in DOMAIN content.entries |->
                      CardStateOf(content.entries[k].members)]]

\* faulty variant: load_progress without its except clause
LoadProgressResultNoExcept(content) ==
    IF content.kind = "missing" THEN [raised |-> FALSE, out |-> <<>>]
    ELSE LoadBody(content)

\* load_progress(fp), with whether an exception leaves it
LoadProgressResult(content) ==
    IF content.kind = "missing" THEN [raised |-> FALSE, out |-> <<>>]
    ELSE IF LoadBody(content).raised THEN [raised |-> FALSE, out |-> <<>>]
    ELSE LoadBody(content)

\* faulty variant: save_progress leaving out the due date
SaveProgressNoDue(store) ==
    JsonObject([k \in DOMAIN store |->
                  JObject([f \in FieldNames \ {"due"} |-> AsDict(store[k]).members[f]])])

\* save_progress(fp, prog): {k: asdict(v)} written as JSON
SaveProgress(store) == JsonObject([k \in DOMAIN store |-> AsDict(store[k])])

\* the mapping load_progress(fp) returns
LoadProgress(content) == LoadProgressResult(content).out

\* a card a previous session left behind: missed once, then promoted a day before tick 0
OldCard ==
    [box |-> 2, correct_streak |-> 1, incorrect_count |-> 1,
     last_seen |-> Some(0 - Day), due |-> Some(0)]

\* course_progress.json before the first session: absent, or written by an earlier one
InitFiles == {Missing, SaveProgress([q \in {1} |-> OldCard])}

----------------------------------------------------------------------------
(* Weighted selection *)

\* faulty variant: the overdue bonus growing without the cap at 2x
SrsWeightNoCap(qid, store, t1, t2) ==
    LET st == Get(store, qid)
        base == BaseWeight[st.box]
        bonus10 ==
            IF st.due # None /\ t1 >= FromIso(st.due[1])
            THEN LET delta_days == ((t2 - FromIso(st.due[1])) \div (Day * Res)) + 1
                 IN  10 + 2 * delta_days
            ELSE 10
    IN  (base * bonus10) \div 10

\* faulty variant: every box weighted like box 1
SrsWeightFlat(qid, store, t1, t2) ==
    LET st == Get(store, qid)
        base == BaseWeight[1]
        bonus10 ==
            IF st.due # None /\ t1 >= FromIso(st.due[1])
            THEN LET delta_days == ((t2 - FromIso(st.due[1])) \div (Day * Res)) + 1
                 IN  10 + Min(10, 2 * delta_days)
            ELSE 10
    IN  (base * bonus10) \div 10

\* faulty variant: a due text that is no timestamp read as the epoch
SrsWeightEpoch(qid, store, t1, t2) ==
    LET st == Get(store, qid)
        base == BaseWeight[st.box]
        bonus10 ==
            IF st.due # None /\ t1 >= FromIso(st.due[1])
            THEN LET delta_days == ((t2 - FromIso(st.due[1])) \div (Day * Res)) + 1
                 IN  10 + Min(10, 2 * delta_days)
            ELSE 10
    IN  (base * bonus10) \div 10

\* the lookup {1: 1.0, ..., 5: 0.1}[st.box] raises KeyError
SrsWeightRaises(qid, store) == Get(store, qid).box \notin DOMAIN BaseWeight

\* hundredths; t1 and t2 are the two clock reads of srs_weight; fromisoformat
\* raising on st.due leaves the bonus at 1.0
SrsWeight(qid, store, t1, t2) ==
    LET st == Get(store, qid)
        base == BaseWeight[st.box]
        bonus10 ==
            IF st.due # None /\ IsIso(st.due) /\ t1 >= FromIso(st.due[1])
            THEN LET delta_days == ((t2 - FromIso(st.due[1])) \div (Day * Res)) + 1
                 IN  10 + Min(10, 2 * delta_days)
            ELSE 10
    IN  (base * bonus10) \div 10

\* s after the i-th addition in the walk
Cumulative(w_, i) == SumSeq([j \in 1..i |-> w_[j]])

\* random.random(): a fraction u / Grain in [0, 1)
Randoms == 0..(Grain - 1)

\* faulty variant: the walk stopping only once s exceeds r
PickIndexStrict(w_, u) ==
    LET total == SumSeq(w_)
        hits == {i \in 1..Len(w_) : Cumulative(w_, i) * Grain > u * total}
    IN  IF hits = {} THEN 1 ELSE CHOOSE i \in hits : \A j \in hits : i <= j

\* faulty variant: the walk stopping at the first candidate whatever r is
PickIndexFirst(w_, u) == 1

\* the index (1-based) the walk stops at when random.random() returned u / Grain:
\* the first i with s >= r, r = (u / Grain) * total; idx stays 0 when there is none
PickIndex(w_, u) ==
    LET total == SumSeq(w_)
        hits == {i \in 1..Len(w_) : Cumulative(w_, i) * Grain >= u * total}
    IN  IF hits = {} THEN 1 ELSE CHOOSE i \in hits : \A j \in hits : i <= j

\* faulty variant: sampling that leaves the drawn question among the candidates
RECURSIVE DrawsWithReplacement(_, _, _)
DrawsWithReplacement(cands, w_, k) ==
    IF k = 0 THEN {<<>>}
    ELSE UNION {
            {<<cands[i]>> \o rest : rest \in DrawsWithReplacement(cands, w_, k - 1)}
            : i \in {PickIndex(w_, u) : u \in Randoms}}

\* the loop of choose_exam_set: every sequence `chosen` can end as
RECURSIVE Draws(_, _, _)
Draws(cands, w_, k) ==
    IF k = 0 THEN {<<>>}
    ELSE UNION {
            {<<cands[i]>> \o rest : rest \in Draws(RemoveAt(cands, i), RemoveAt(w_, i), k - 1)}
            : i \in {PickIndex(w_, u) : u \in Randoms}}

\* the loop of choose_exam_set when random.random() returns us[1] / Grain,
\* us[2] / Grain, ... in turn: the list `chosen`
RECURSIVE DrawWith(_, _, _)
DrawWith(cands, w_, us) ==
    IF us = <<>> \/ cands = <<>> THEN <<>>
    ELSE LET i == PickIndex(w_, us[1])
         IN  <<cands[i]>> \o DrawWith(RemoveAt(cands, i), RemoveAt(w_, i), Tail(us))

\* the sequences of values random.random() can return during one call
RandomRuns(qs, n) == [1..Min(n, Len(qs)) -> Randoms]

\* faulty variant: the lookup done with prog.setdefault
AfterSetdefault(store, qid) == Put(store, qid, Get(store, qid))

\* the store after `st = prog.get(qid, CardState())`: the default is handed
\* to the caller and not stored
AfterGet(store, qid) == store

\* the store after every question of qs was looked up
RECURSIVE AfterLookups(_, _)
AfterLookups(store, qs) ==
    IF qs = <<>> THEN store ELSE AfterLookups(AfterGet(store, Head(qs)), Tail(qs))

\* `total = sum(weights)` of choose_exam_set
TotalWeight(qs, store, t) == SumSeq([i \in 1..Len(qs) |-> SrsWeight(qs[i], store, t, t)])

\* choose_exam_set takes the branch `if total == 0: random.shuffle(qs); return qs[:n]`
ZeroTotal(qs, store, t) == qs # <<>> /\ TotalWeight(qs, store, t) = 0

\* the caller's list after choose_exam_set(qs, n, prog): random.shuffle(qs)
\* works in place, the sampling loop pops from the copy `pool = list(qs)`
ListAfterChooseExamSet(qs, store, t) ==
    IF ZeroTotal(qs, store, t) THEN Shuffles(qs) ELSE {qs}

\* every list choose_exam_set(qs, n, prog) can return at clock t
\* choose_exam_set(qs, n, prog) is left by the KeyError of a srs_weight call
ChooseExamSetRaises(qs, store) ==
    qs # <<>> /\ \E i \in 1..Len(qs) : SrsWeightRaises(qs[i], store)

ChooseExamSet(qs, n, store, t) ==
    IF qs = <<>> THEN {<<>>}
    ELSE LET weights == [i \in 1..Len(qs) |-> SrsWeight(qs[i], store, t, t)]
         IN  IF SumSeq(weights) = 0
             THEN {Take(s, n) : s \in Shuffles(qs)}
             ELSE Draws(qs, weights, Min(n, Len(qs)))

----------------------------------------------------------------------------
(* Review selection: webgui.py choose_special_set *)

\* score of one question; t is the clock read made while scoring it
SpecialScore(qid, store, t) ==
    LET st == Get(store, qid)
    IN  st.incorrect_count * 3 + (6 - st.box)
          + (IF st.due # None /\ IsIso(st.due) /\ t >= FromIso(st.due[1])
             THEN 2 ELSE 0)

\* the list `scored` before the sort; t records the clock read with each entry
SpecialScored(qs, store, reads) ==
    [i \in 1..Len(qs) |-> [score |-> SpecialScore(qs[i], store, reads[i]),
                            q |-> qs[i], t |-> reads[i]]]

\* faulty variant: an entry put in front of the entries of equal score
InsertBeforeEqual(sorted, x) ==
    LET ahead == {i \in 1..Len(sorted) : sorted[i].score > x.score}
        k == Cardinality(ahead)
    IN  SubSeq(sorted, 1, k) \o <<x>> \o SubSeq(sorted, k + 1, Len(sorted))

\* faulty variant: an entry put behind the entries of lower score
InsertAscending(sorted, x) ==
    LET ahead == {i \in 1..Len(sorted) : sorted[i].score <= x.score}
        k == Cardinality(ahead)
    IN  SubSeq(sorted, 1, k) \o <<x>> \o SubSeq(sorted, k + 1, Len(sorted))

\* x placed into a list sorted by descending score, behind every entry whose
\* score is not lower: what a stable sort with reverse=True does with x
InsertDesc(sorted, x) ==
    LET ahead == {i \in 1..Len(sorted) : sorted[i].score >= x.score}
        k == Cardinality(ahead)
    IN  SubSeq(sorted, 1, k) \o <<x>> \o SubSeq(sorted, k + 1, Len(sorted))

\* scored.sort(key=lambda x: x[0], reverse=True)
RECURSIVE SortDesc(_)
SortDesc(sc) ==
    IF sc = <<>> THEN <<>>
    ELSE InsertDesc(SortDesc(SubSeq(sc, 1, Len(sc) - 1)), sc[Len(sc)])

\* faulty variant: the fill step drawing from the whole pool
SpecialRemainingAll(qs, chosen) == qs

\* remaining = [q for q in qs if q not in chosen]
SpecialRemaining(qs, chosen) ==
    SelectSeq(qs, LAMBDA q : \A i \in 1..Len(chosen) : chosen[i] # q)

\* every list choose_special_set(qs, n, prog) can return; reads are the clock
\* reads of the scoring loop, tfill the clock at the fill step
ChooseSpecialSet(qs, n, store, reads, tfill) ==
    LET sorted == SortDesc(SpecialScored(qs, store, reads))
        chosen == [i \in 1..Min(n, Len(sorted)) |-> sorted[i].q]
    IN  IF Len(chosen) < n
        THEN {chosen \o fill :
                fill \in ChooseExamSet(SpecialRemaining(qs, chosen), n - Len(chosen),
                                       store, tfill)}
        ELSE {chosen}

----------------------------------------------------------------------------
(* History bookkeeping shared by the runners *)

Ev(op, q, label) == [op |-> op, q |-> q, label |-> label]

LabelOf == <<"A", "B", "C", "D">>

\* the answers given to the card of q since the session got hold of it, in
\* order (TRUE for a correct one); fresh: `prog.get(q.id, CardState())` made it
Answered(h, store, q, ok) ==
    LET old == IF q \in DOMAIN h THEN h[q]
               ELSE [fresh |-> q \notin DOMAIN store, answers |-> <<>>]
    IN  [k \in DOMAIN h \cup {q} |->
            IF k = q THEN [old EXCEPT !.answers = Append(@, ok)] ELSE h[k]]

\* the ticks the clock can advance by between the two reads of one schedule() call
Skews == {d \in 0..MaxNow : now + d <= MaxNow}

NewSession(s) ==
    /\ initial' = s
    /\ set' = s
    /\ index' = 0
    /\ wrong' = <<>>
    /\ rnd' = 1
    /\ missed' = <<>>
    /\ reviewOf' = <<>>

\* nothing sampled, nothing scored, no web session
NoDraw == [u |-> 0, idx |-> 0, total |-> 0]

AuxInit ==
    /\ w = <<>>
    /\ draw = NoDraw
    /\ scored = <<>>
    /\ app_state = <<>>
    /\ cookie = <<>>
    /\ poolfile = <<>>
    /\ hist = <<>>
    /\ gamestate = <<>>

Init ==
    /\ runner \in {"terminal", "gui", "web"}
    /\ pc = (IF runner = "terminal" THEN "boot"
             ELSE IF runner = "gui" THEN "idle" ELSE "nosession")
    /\ file \in InitFiles
    \* the desktop window's pool is all_qs as set_filters left it
    /\ pool \in (IF runner = "gui" THEN SubSeqs(BUILTIN) ELSE {<<>>})
    /\ num = (IF runner = "gui" THEN GuiNum ELSE 0)
    /\ prog = (IF runner = "gui" THEN LoadProgress(file) ELSE EmptyStore)
    /\ set = <<>>
    /\ index = 0
    /\ wrong = <<>>
    /\ current_question = None
    /\ now = 0
    /\ initial = <<>>
    /\ rnd = 0
    /\ missed = <<>>
    /\ reviewOf = <<>>
    /\ ev = Ev("init", 0, "")
    /\ answered = 0
    /\ card = DefaultCard
    /\ origin = "default"
    /\ AuxInit

----------------------------------------------------------------------------
(* Terminal runner: main.py main(), run_round(), ask() *)

\* the body of run_round's loop once ask() has returned ok
\* faulty variant: run_round appending a missed question twice
RunRoundBodyAppendsTwice(store, wrongv, q, ok, t1, t2) ==
    [prog |-> Put(store, q, IF ok THEN Promote(Get(store, q), t1, t2)
                            ELSE Demote(Get(store, q), t1, t2)),
     wrong |-> IF ok THEN wrongv ELSE Append(Append(wrongv, q), q)]

RunRoundBody(store, wrongv, q, ok, t1, t2) ==
    [prog |-> Put(store, q, IF ok THEN Promote(Get(store, q), t1, t2)
                            ELSE Demote(Get(store, q), t1, t2)),
     wrong |-> IF ok THEN wrongv ELSE Append(wrongv, q)]

\* faulty variant: the loop of main() keeping the old miss list
MainNextRoundKeepsWrong(wrongv) ==
    {[set |-> s, wrong |-> wrongv, index |-> 0] : s \in Shuffles(wrongv)}

\* main(): `while wrong: random.shuffle(wrong); wrong = run_round(wrong, ...)`
MainNextRound(wrongv) ==
    {[set |-> s, wrong |-> <<>>, index |-> 0] : s \in Shuffles(wrongv)}

\* main() up to the first prompt: filter, load_progress, choose_exam_set
TermStart(p, n) ==
    /\ runner = "terminal"
    /\ pc = "boot"
    /\ pool' = p
    /\ IF p = <<>>
       THEN /\ pc' = "exit1"
            /\ ev' = Ev("no_questions", 0, "")
            /\ UNCHANGED <<num, set, index, wrong, prog, initial, rnd, missed,
                           reviewOf>>
       ELSE /\ num' = n
            /\ prog' = LoadProgress(file)
            /\ \E s \in ChooseExamSet(p, n, LoadProgress(file), now) :
                  /\ NewSession(s)
                  /\ pc' = IF s = <<>> THEN "round_end" ELSE "ask"
            /\ ev' = Ev("start", 0, "")
    /\ UNCHANGED <<runner, current_question, file, now, answered, card, origin>>
    /\ UNCHANGED aux

\* one line typed at ask()'s prompt, stripped and upper-cased
TermAnswerStep(choice) ==
    /\ runner = "terminal"
    /\ pc = "ask"
    /\ LET q == set[index + 1]
       IN  IF choice = "Q"
           THEN /\ pc' = "quit"
                /\ ev' = Ev("quit", q, choice)
                /\ UNCHANGED <<prog, wrong, index, missed, now, answered, hist>>
           ELSE IF choice \in Labels
           THEN \E d \in Skews :
                  LET ok == (choice = Answer(q))
                      r == RunRoundBody(prog, wrong, q, ok, now, now + d)
                  IN  /\ answered' = answered + 1
                      /\ prog' = r.prog
                      /\ wrong' = r.wrong
                      /\ index' = index + 1
                      /\ missed' = IF ok THEN missed ELSE Append(missed, q)
                      /\ now' = now + d
                      /\ pc' = IF index + 1 < Len(set) THEN "ask" ELSE "round_end"
                      /\ hist' = Answered(hist, prog, q, ok)
                      /\ ev' = Ev("submit", q, choice)
           ELSE /\ ev' = Ev("submit", q, choice)
                /\ UNCHANGED <<pc, prog, wrong, index, missed, now, answered, hist>>
    /\ UNCHANGED <<runner, pool, num, set, current_question, file, initial, rnd,
                   reviewOf, card, origin>>
    /\ UNCHANGED <<w, draw, scored, app_state, cookie, poolfile, gamestate>>

\* the same, for as long as this specification takes answers
TermAnswer(choice) ==
    /\ choice \in Labels => answered < MaxAnswers
    /\ TermAnswerStep(choice)

\* run_round returns; main() starts the next review round or saves and ends
TermRoundEnd ==
    /\ runner = "terminal"
    /\ pc = "round_end"
    /\ IF wrong # <<>>
       THEN /\ \E nx \in MainNextRound(wrong) :
                  /\ set' = nx.set
                  /\ wrong' = nx.wrong
                  /\ index' = nx.index
            /\ rnd' = rnd + 1
            /\ reviewOf' = missed
            /\ missed' = <<>>
            /\ pc' = "ask"
            /\ ev' = Ev("review", 0, "")
            /\ UNCHANGED file
       ELSE /\ file' = SaveProgress(prog)
            /\ pc' = "done"
            /\ ev' = Ev("complete", 0, "")
            /\ UNCHANGED <<set, wrong, index, rnd, reviewOf, missed>>
    /\ UNCHANGED <<runner, pool, num, current_question, prog, now, initial, answered, card, origin>>
    /\ UNCHANGED aux

----------------------------------------------------------------------------
(* Desktop runner: gui.py QuizGUI *)

\* QuizGUI.answer up to `self.current_index += 1`
GuiAnswerBody(store, wrongv, q, ok, t1, t2) ==
    [prog |-> Put(store, q, IF ok THEN Promote(Get(store, q), t1, t2)
                            ELSE Demote(Get(store, q), t1, t2)),
     wrong |-> IF ok THEN wrongv ELSE Append(wrongv, q)]

\* faulty variant: next_question finishing without looking at the miss queue
NextQuestionIgnoresWrong(setv, idx, wrongv, cq) ==
    IF idx >= Len(setv)
    THEN [set |-> setv, wrong |-> wrongv, index |-> idx,
          current_question |-> cq, done |-> TRUE, review |-> FALSE]
    ELSE [set |-> setv, wrong |-> wrongv, index |-> idx,
          current_question |-> Some(setv[idx + 1]), done |-> FALSE, review |-> FALSE]

\* QuizGUI.next_question: `done` when it saves and returns, `review` when it
\* starts the review of the missed questions
NextQuestion(setv, idx, wrongv, cq) ==
    IF idx >= Len(setv)
    THEN IF wrongv # <<>>
         THEN [set |-> wrongv, wrong |-> <<>>, index |-> 0,
               current_question |-> Some(wrongv[1]), done |-> FALSE, review |-> TRUE]
         ELSE [set |-> setv, wrong |-> wrongv, index |-> idx,
               current_question |-> cq, done |-> TRUE, review |-> FALSE]
    ELSE [set |-> setv, wrong |-> wrongv, index |-> idx,
          current_question |-> Some(setv[idx + 1]), done |-> FALSE, review |-> FALSE]

\* QuizGUI.start_session
GuiStart ==
    /\ runner = "gui"
    /\ IF pool = <<>>
       THEN /\ ev' = Ev("no_questions", 0, "")
            /\ UNCHANGED <<pc, set, index, wrong, current_question, file, initial,
                           rnd, missed, reviewOf>>
       ELSE \E s \in ChooseExamSet(pool, num, prog, now) :
              LET nq == NextQuestion(s, 0, <<>>, current_question)
              IN  /\ initial' = s
                  /\ set' = nq.set
                  /\ index' = nq.index
                  /\ wrong' = nq.wrong
                  /\ current_question' = nq.current_question
                  /\ rnd' = 1
                  /\ missed' = <<>>
                  /\ reviewOf' = <<>>
                  /\ pc' = IF nq.done THEN "done" ELSE "asking"
                  /\ file' = IF nq.done THEN SaveProgress(prog) ELSE file
                  /\ ev' = Ev("start", 0, "")
    /\ UNCHANGED <<runner, pool, num, prog, now, answered, card, origin>>
    /\ UNCHANGED aux

\* QuizGUI.answer(idx), the click on one of the four option buttons
GuiAnswer(i) ==
    /\ runner = "gui"
    /\ current_question # None
    /\ \E d \in Skews :
          LET q == current_question[1]
              choice == LabelOf[i + 1]
              ok == (choice = Answer(q))
              r == GuiAnswerBody(prog, wrong, q, ok, now, now + d)
              nq == NextQuestion(set, index + 1, r.wrong, current_question)
              missedNow == IF ok THEN missed ELSE Append(missed, q)
          IN  /\ answered < MaxAnswers
              /\ answered' = answered + 1
              /\ prog' = r.prog
              /\ set' = nq.set
              /\ index' = nq.index
              /\ wrong' = nq.wrong
              /\ current_question' = nq.current_question
              /\ rnd' = IF nq.review THEN rnd + 1 ELSE rnd
              /\ reviewOf' = IF nq.review THEN missedNow ELSE reviewOf
              /\ missed' = IF nq.review THEN <<>> ELSE missedNow
              /\ pc' = IF nq.done THEN "done" ELSE "asking"
              /\ file' = IF nq.done THEN SaveProgress(r.prog) ELSE file
              /\ now' = now + d
              /\ hist' = Answered(hist, prog, q, ok)
              /\ ev' = Ev("submit", q, choice)
    /\ UNCHANGED <<runner, pool, num, initial, card, origin>>
    /\ UNCHANGED <<w, draw, scored, app_state, cookie, poolfile, gamestate>>

\* QuizGUI.save, the Save Progress button
GuiSave ==
    /\ runner = "gui"
    /\ file' = SaveProgress(prog)
    /\ ev' = Ev("save", 0, "")
    /\ UNCHANGED <<runner, pc, pool, num, set, index, wrong, current_question,
                   prog, now, initial, rnd, missed, reviewOf, answered, card, origin>>
    /\ UNCHANGED aux

----------------------------------------------------------------------------
(* Gamification: webgui.py gamestate; a 'history' record without its 'ts' *)

RECURSIVE Pow2(_)
Pow2(n) == IF n <= 0 THEN 1 ELSE 2 * Pow2(n - 1)

Abs(n) == IF n < 0 THEN 0 - n ELSE n

\* the default gamestate of load_gamestate
DefaultGame ==
    [points |-> 0, rank |-> "Unranked", answer_streak |-> 0, daily_streak |-> 0,
     last_active |-> None, history |-> <<>>]

\* check_and_award_badges: the rank of a number of points
Rank(p) ==
    IF p >= 1500 THEN "Grand Master"
    ELSE IF p >= 1000 THEN "Master"
    ELSE IF p >= 700 THEN "Diamond"
    ELSE IF p >= 500 THEN "Gold"
    ELSE IF p >= 300 THEN "Silver"
    ELSE IF p >= 100 THEN "Bronze"
    ELSE "Unranked"

\* load_gamestate(uid): the stored gamestate with its rank recomputed, or the default
LoadGamestate(g, uid) ==
    IF uid \in DOMAIN g THEN [g[uid] EXCEPT !.rank = Rank(g[uid].points)]
    ELSE DefaultGame

\* save_gamestate(gs, uid)
SaveGamestate(g, uid, gs) ==
    [k \in DOMAIN g \cup {uid} |-> IF k = uid THEN gs ELSE g[k]]

\* the calendar day of a clock reading and of a stored timestamp
DateOf(t) == t \div (Day * Res)

DateOfIso(sec) == sec \div Day

\* update_daily_streak(gs) at clock t
UpdateDailyStreak(gs, t) ==
    IF gs.last_active # None /\ DateOfIso(gs.last_active[1]) = DateOf(t) THEN gs
    ELSE [gs EXCEPT
            !.daily_streak =
                IF gs.last_active # None /\ DateOf(t) - DateOfIso(gs.last_active[1]) = 1
                THEN @ + 1 ELSE 1,
            !.last_active = Some(IsoFormat(t)),
            !.rank = Rank(gs.points)]

\* faulty variant: every correct answer worth 10 points
StreakStepFlat(streak, ok) ==
    IF ok
    THEN LET s0 == IF streak < 0 THEN 0 ELSE streak
         IN  [streak |-> s0 + 1, delta |-> 10]
    ELSE LET s0 == IF streak > 0 THEN 0 ELSE streak
         IN  [streak |-> s0 - 1,
              delta |-> IF s0 < 0 THEN 0 - (2 * Pow2(Abs(s0))) ELSE 0 - 2]

\* the points of one answer: the streak after it and the change of points
StreakStep(streak, ok) ==
    IF ok
    THEN LET s0 == IF streak < 0 THEN 0 ELSE streak
         IN  [streak |-> s0 + 1, delta |-> 10 * Pow2(s0)]
    ELSE LET s0 == IF streak > 0 THEN 0 ELSE streak
         IN  [streak |-> s0 - 1,
              delta |-> IF s0 < 0 THEN 0 - (2 * Pow2(Abs(s0))) ELSE 0 - 2]

\* the gamification block of POST /question: what award_points saves
Gamify(gs, ok, t) ==
    LET g1 == UpdateDailyStreak(gs, t)
        st == StreakStep(g1.answer_streak, ok)
    IN  [g1 EXCEPT !.answer_streak = st.streak,
                   !.points = @ + st.delta,
                   !.history = Append(@, [delta |-> st.delta,
                                          reason |-> IF ok THEN "correct"
                                                     ELSE "incorrect"]),
                   !.rank = Rank(g1.points + st.delta)]

\* the gamestate files after the answer of user uid
GamestateAfter(g, uid, ok, t) ==
    SaveGamestate(g, uid, Gamify(LoadGamestate(g, uid), ok, t))

\* end(): last_active is brought up to date for a session that has a user_id
GamestateAtEnd(g, uid, t) ==
    IF uid \in DOMAIN g
    THEN SaveGamestate(g, uid,
                       [LoadGamestate(g, uid) EXCEPT !.last_active = Some(IsoFormat(t))])
    ELSE g

\* the user of the single web session of the runner specification
WebUser == 1

----------------------------------------------------------------------------
(* Web runner: webgui.py /start, /question, /end *)

\* faulty variant: a miss queued twice
WebSubmitAppendsTwice(store, wrongv, idx, q, choice, t1, t2) ==
    LET ok == (choice = Answer(q))
        st == Get(store, q)
    IN  [prog |-> Put(store, q, IF ok THEN Promote(st, t1, t2) ELSE Demote(st, t1, t2)),
         wrong |-> IF ok THEN wrongv ELSE Append(Append(wrongv, q), q),
         index |-> idx + 1]

\* question(), the POST branch: `choice` is compared with q.answer as it comes
WebSubmit(store, wrongv, idx, q, choice, t1, t2) ==
    LET ok == (choice = Answer(q))
        st == Get(store, q)
    IN  [prog |-> Put(store, q, IF ok THEN Promote(st, t1, t2) ELSE Demote(st, t1, t2)),
         wrong |-> IF ok THEN wrongv ELSE Append(wrongv, q),
         index |-> idx + 1]

\* question() with the cursor before the end: what the request ends as. The
\* `return render_template('result.html', ok=ok, ...)` stands after the POST
\* block, not inside it, so every method reaches it, and `ok`, `delta` and
\* `gs` are bound by the POST block only: for GET the read of `ok` raises
\* UnboundLocalError and the GET code below the return is never run
QuestionOutcome(method) == IF method = "POST" THEN "submit" ELSE "error"

\* faulty variant: the review pass starting with the cursor where it was
WebReviewKeepsIndex(wrongv, idx) == [set |-> wrongv, wrong |-> <<>>, index |-> idx]

\* question(): `state['set'] = state['wrong']; state['wrong'] = []; state['index'] = 0`
WebReview(wrongv, idx) == [set |-> wrongv, wrong |-> <<>>, index |-> 0]

\* POST /start with the form's filters (p is the filtered pool) and num
WebStart(p, n) ==
    /\ runner = "web"
    /\ IF p = <<>>
       THEN /\ ev' = Ev("no_questions", 0, "")
            /\ UNCHANGED <<pc, pool, num, set, index, wrong, prog, initial, rnd,
                           missed, reviewOf, hist>>
       ELSE /\ pool' = p
            /\ num' = n
            /\ prog' = LoadProgress(file)
            /\ \E s \in ChooseExamSet(p, n, LoadProgress(file), now) : NewSession(s)
            /\ pc' = "active"
            /\ hist' = <<>>
            /\ ev' = Ev("start", 0, "")
    /\ UNCHANGED <<runner, current_question, file, now, answered, card, origin>>
    /\ UNCHANGED <<w, draw, scored, app_state, cookie, poolfile, gamestate>>

\* GET or POST /question with a session in app_state
WebQuestionStep(method, choice) ==
    /\ runner = "web"
    /\ pc \in {"active", "done"}
    /\ IF index >= Len(set)
       THEN IF wrong # <<>>
            THEN LET nx == WebReview(wrong, index)
                 IN  /\ set' = nx.set
                     /\ wrong' = nx.wrong
                     /\ index' = nx.index
                     /\ rnd' = rnd + 1
                     /\ reviewOf' = missed
                     /\ missed' = <<>>
                     /\ pc' = "active"
                     /\ ev' = Ev("review", 0, "")
                     /\ UNCHANGED <<prog, now, answered, gamestate, hist>>
            ELSE /\ pc' = "done"
                 /\ ev' = Ev("complete", 0, "")
                 /\ UNCHANGED <<set, wrong, index, rnd, reviewOf, missed, prog, now,
                                answered, gamestate, hist>>
       ELSE LET q == set[index + 1]
            IN  IF method = "POST"
                THEN \E d \in Skews :
                       LET r == WebSubmit(prog, wrong, index, q, choice, now, now + d)
                       IN  /\ answered' = answered + 1
                           /\ prog' = r.prog
                           /\ wrong' = r.wrong
                           /\ index' = r.index
                           /\ missed' = IF choice = Answer(q) THEN missed
                                        ELSE Append(missed, q)
                           /\ now' = now + d
                           /\ gamestate' = GamestateAfter(gamestate, WebUser,
                                                           choice = Answer(q), now + d)
                           /\ hist' = Answered(hist, prog, q, choice = Answer(q))
                           /\ ev' = Ev("submit", q, choice)
                           /\ UNCHANGED <<pc, set, rnd, reviewOf>>
                ELSE /\ ev' = Ev(QuestionOutcome(method), q, "")
                     /\ UNCHANGED <<pc, set, wrong, index, rnd, reviewOf, missed,
                                    prog, now, answered, gamestate, hist>>
    /\ UNCHANGED <<runner, pool, num, current_question, file, initial,
                   card, origin>>
    /\ UNCHANGED <<w, draw, scored, app_state, cookie, poolfile>>

\* the same, for as long as this specification takes answers
WebQuestion(method, choice) ==
    /\ (method = "POST" /\ index < Len(set)) => answered < MaxAnswers
    /\ WebQuestionStep(method, choice)

\* GET /end with a session in app_state: the session is popped and saved
WebEnd ==
    /\ runner = "web"
    /\ pc \in {"active", "done"}
    /\ file' = SaveProgress(prog)
    /\ pc' = "nosession"
    /\ prog' = EmptyStore
    /\ set' = <<>>
    /\ index' = 0
    /\ wrong' = <<>>
    /\ initial' = <<>>
    /\ rnd' = 0
    /\ missed' = <<>>
    /\ reviewOf' = <<>>
    /\ ev' = Ev("end", 0, "")
    /\ UNCHANGED <<runner, pool, num, current_question, now, answered, card, origin>>
    /\ gamestate' = GamestateAtEnd(gamestate, WebUser, now)
    /\ hist' = <<>>
    /\ UNCHANGED <<w, draw, scored, app_state, cookie, poolfile>>

----------------------------------------------------------------------------

Next ==
    \/ \E p \in SubSeqs(BUILTIN), n \in 0..MaxNum : TermStart(p, n)
    \/ \E c \in Labels \cup BadLabels \cup {"Q"} : TermAnswer(c)
    \/ TermRoundEnd
    \/ GuiStart
    \/ \E i \in 0..3 : GuiAnswer(i)
    \/ GuiSave
    \/ \E p \in SubSeqs(BUILTIN), n \in 0..MaxNum : WebStart(p, n)
    \/ \E m \in {"GET", "POST"}, c \in Labels \cup BadLabels : WebQuestion(m, c)
    \/ WebEnd

Spec == Init /\ [][Next]_vars

----------------------------------------------------------------------------
(* One session to its end: the terminal and the web runner with a user who   *)
(* keeps answering and misses nothing from pass MaxLivePasses on             *)

LiveInit ==
    /\ Init
    /\ runner \in {"terminal", "web"}

\* the answer at the cursor may be wrong in this pass
LiveMayMiss(choice) ==
    \/ rnd < MaxLivePasses
    \/ (index < Len(set) /\ choice = Answer(set[index + 1]))

LiveTermStart(p, n) == TermStart(p, n)

LiveTermAnswer(choice) ==
    /\ LiveMayMiss(choice)
    /\ TermAnswerStep(choice)

LiveTermRoundEnd == TermRoundEnd

LiveWebStart(p, n) ==
    /\ pc = "nosession"
    /\ WebStart(p, n)

LiveWebQuestion(method, choice) ==
    /\ method = "POST" => LiveMayMiss(choice)
    /\ WebQuestionStep(method, choice)

LiveNext ==
    \/ \E p \in SubSeqs(BUILTIN), n \in 0..MaxNum : LiveTermStart(p, n)
    \/ \E c \in Labels : LiveTermAnswer(c)
    \/ LiveTermRoundEnd
    \/ \E p \in SubSeqs(BUILTIN), n \in 0..MaxNum : LiveWebStart(p, n)
    \/ \E m \in {"GET", "POST"}, c \in Labels : LiveWebQuestion(m, c)

\* answers keep being submitted, and each front end keeps running its loop
LiveSpec ==
    /\ LiveInit
    /\ [][LiveNext]_vars
    /\ WF_vars(\E c \in Labels : LiveTermAnswer(c))
    /\ WF_vars(LiveTermRoundEnd)
    /\ WF_vars(\E m \in {"GET", "POST"}, c \in Labels : LiveWebQuestion(m, c))

----------------------------------------------------------------------------
(* Card-level specification: promote() and demote() on one CardState *)

\* cards load_progress can hand over: any box, a miss on record, due at tick 0
LoadedCards ==
    {[box |-> b, correct_streak |-> 0, incorrect_count |-> 1,
      last_seen |-> Some(0 - Day), due |-> Some(0)] : b \in 1..MaxBox}

CardSkews == {d \in 0..MaxCardNow : now + d <= MaxCardNow}

CardInit ==
    /\ runner = "card"
    /\ pc = "card"
    /\ \/ card = DefaultCard /\ origin = "default"
       \/ card \in LoadedCards /\ origin = "loaded"
    /\ now = 0
    /\ pool = <<>>
    /\ num = 0
    /\ prog = EmptyStore
    /\ file = Missing
    /\ set = <<>>
    /\ index = 0
    /\ wrong = <<>>
    /\ current_question = None
    /\ initial = <<>>
    /\ rnd = 0
    /\ missed = <<>>
    /\ reviewOf = <<>>
    /\ answered = 0
    /\ ev = Ev("init", 0, "")
    /\ AuxInit

\* st.promote(); ev remembers the box before the call
CardPromote ==
    /\ runner = "card"
    /\ card.correct_streak < MaxCardStreak
    /\ \E d \in CardSkews :
          /\ card' = Promote(card, now, now + d)
          /\ now' = now + d
    /\ ev' = Ev("promote", card.box, "")
    /\ UNCHANGED <<runner, pc, pool, num, set, index, wrong, current_question, prog,
                   file, initial, rnd, missed, reviewOf, answered, origin>>
    /\ UNCHANGED aux

\* st.demote()
CardDemote ==
    /\ runner = "card"
    /\ card.incorrect_count < MaxCardMisses
    /\ \E d \in CardSkews :
          /\ card' = Demote(card, now, now + d)
          /\ now' = now + d
    /\ ev' = Ev("demote", card.box, "")
    /\ UNCHANGED <<runner, pc, pool, num, set, index, wrong, current_question, prog,
                   file, initial, rnd, missed, reviewOf, answered, origin>>
    /\ UNCHANGED aux

\* time passes between two calls
CardTick ==
    /\ runner = "card"
    /\ now < MaxCardNow
    /\ now' = now + 1
    /\ ev' = Ev("tick", card.box, "")
    /\ UNCHANGED <<runner, pc, pool, num, set, index, wrong, current_question, prog,
                   file, initial, rnd, missed, reviewOf, answered, card, origin>>
    /\ UNCHANGED aux

CardNext ==
    \/ CardPromote
    \/ CardDemote
    \/ CardTick

CardSpec == CardInit /\ [][CardNext]_vars

----------------------------------------------------------------------------
(* Selector specification: choose_exam_set applied to bounded inputs *)

SelBoxes == {1, 3, 5}

\* no due date, two days overdue, due tomorrow (the call is made at tick 0)
SelDues == {None, Some(0 - 2 * Day), Some(Day)}

SelCards ==
    {[box |-> b, correct_streak |-> 0, incorrect_count |-> 0,
      last_seen |-> None, due |-> d] : b \in SelBoxes, d \in SelDues}

\* Progress Stores over the ids of the bank
SelStores ==
    UNION {[ids -> SelCards] : ids \in SUBSET QIds}

\* pools with distinct ids, in any order
SelPools == UNION {Shuffles(p) : p \in SubSeqs(BUILTIN)}

SelInit ==
    /\ runner = "select"
    /\ pc = "input"
    /\ pool \in SelPools
    /\ num \in 0..MaxNum
    /\ prog \in SelStores
    /\ now = 0
    /\ file = Missing
    /\ set = <<>>
    /\ index = 0
    /\ wrong = <<>>
    /\ current_question = None
    /\ initial = <<>>
    /\ rnd = 0
    /\ missed = <<>>
    /\ reviewOf = <<>>
    /\ answered = 0
    /\ ev = Ev("init", 0, "")
    /\ card = DefaultCard
    /\ origin = "default"
    /\ AuxInit

\* set = choose_exam_set(pool, num, prog)
Select ==
    /\ runner = "select"
    /\ pc = "input"
    /\ set' \in ChooseExamSet(pool, num, prog, now)
    /\ pool' \in ListAfterChooseExamSet(pool, prog, now)
    /\ ZeroTotal(pool, prog, now) => set' = Take(pool', num)
    /\ prog' = AfterLookups(prog, pool)
    /\ pc' = "selected"
    /\ ev' = Ev("select", 0, "")
    /\ UNCHANGED <<runner, num, index, wrong, current_question, file,
                   now, initial, rnd, missed, reviewOf, answered, card, origin>>
    /\ UNCHANGED aux

SelNext == Select

SelSpec == SelInit /\ [][SelNext]_vars

----------------------------------------------------------------------------
(* Repeated trials: choose_exam_set called once for every sequence of values *)
(* random.random() can return, on a pool whose cards are all alike           *)

\* Progress Stores that hold the same card for every question of the pool, or none
TrialStores(qs) == {EmptyStore} \cup {[q \in Range(qs) |-> c] : c \in SelCards}

TrialInit ==
    /\ runner = "trial"
    /\ pc = "input"
    /\ pool \in SelPools \ {<<>>}
    /\ num \in 0..MaxNum
    /\ prog \in TrialStores(pool)
    /\ now = 0
    /\ file = Missing
    /\ set = <<>>
    /\ index = 0
    /\ wrong = <<>>
    /\ current_question = None
    /\ initial = <<>>
    /\ rnd = 0
    /\ missed = <<>>
    /\ reviewOf = <<>>
    /\ answered = 0
    /\ ev = Ev("init", 0, "")
    /\ card = DefaultCard
    /\ origin = "default"
    /\ AuxInit

\* every trial is run: w are the weights of the call, hist counts for each
\* question of the pool the trials that selected it
Trials ==
    /\ runner = "trial"
    /\ pc = "input"
    /\ LET weights == [i \in 1..Len(pool) |-> SrsWeight(pool[i], prog, now, now)]
           chosen == [us \in RandomRuns(pool, num) |-> DrawWith(pool, weights, us)]
       IN  /\ w' = weights
           /\ hist' = [q \in Range(pool) |->
                          Cardinality({us \in RandomRuns(pool, num) :
                                          q \in Range(chosen[us])})]
    /\ pc' = "counted"
    /\ ev' = Ev("trials", 0, "")
    /\ UNCHANGED <<runner, pool, num, set, index, wrong, current_question, prog, file,
                   now, initial, rnd, missed, reviewOf, answered, card, origin>>
    /\ UNCHANGED <<draw, scored, app_state, cookie, poolfile, gamestate>>

TrialNext == Trials

TrialSpec == TrialInit /\ [][TrialNext]_vars

----------------------------------------------------------------------------
(* Sampler specification: the loop of choose_exam_set, one iteration a step *)

\* a new card, a mastered card, a box-3 card two days overdue
DrawCards ==
    {[box |-> 1, correct_streak |-> 0, incorrect_count |-> 0, last_seen |-> None, due |-> None],
     [box |-> 5, correct_streak |-> 0, incorrect_count |-> 0, last_seen |-> None, due |-> None],
     [box |-> 3, correct_streak |-> 0, incorrect_count |-> 0, last_seen |-> None,
      due |-> Some(0 - 2 * Day)]}

DrawStores ==
    UNION {[ids -> DrawCards] : ids \in SUBSET QIds}

\* the state at `for _ in range(min(n, len(pool)))`: pool = list(qs), w = list(weights)
DrawInit ==
    /\ runner = "sampler"
    /\ pc = "loop"
    /\ initial \in SelPools \ {<<>>}
    /\ pool = initial
    /\ num \in 0..MaxNum
    /\ prog \in DrawStores
    /\ now = 0
    /\ w = [i \in 1..Len(initial) |-> SrsWeight(initial[i], prog, now, now)]
    /\ set = <<>>
    /\ index = 0
    /\ file = Missing
    /\ wrong = <<>>
    /\ current_question = None
    /\ rnd = 0
    /\ missed = <<>>
    /\ reviewOf = <<>>
    /\ answered = 0
    /\ ev = Ev("init", 0, "")
    /\ card = DefaultCard
    /\ origin = "default"
    /\ draw = NoDraw
    /\ scored = <<>>
    /\ app_state = <<>>
    /\ cookie = <<>>
    /\ poolfile = <<>>
    /\ hist = <<>>
    /\ gamestate = <<>>

\* one iteration: total = sum(w); r = random.random() * total; the walk; the two pops
DrawStep ==
    /\ runner = "sampler"
    /\ pc = "loop"
    /\ index < Min(num, Len(initial))
    /\ \E u \in Randoms :
          LET idx == PickIndex(w, u)
          IN  /\ set' = Append(set, pool[idx])
              /\ pool' = RemoveAt(pool, idx)
              /\ w' = RemoveAt(w, idx)
              /\ draw' = [u |-> u, idx |-> idx, total |-> SumSeq(w)]
    /\ index' = index + 1
    /\ ev' = Ev("draw", 0, "")
    /\ UNCHANGED <<runner, pc, num, wrong, current_question, prog, file, now, initial,
                   rnd, missed, reviewOf, answered, card, origin, scored, app_state,
                   cookie, poolfile, hist, gamestate>>

\* the range is exhausted: `return chosen`
DrawReturn ==
    /\ runner = "sampler"
    /\ pc = "loop"
    /\ index >= Min(num, Len(initial))
    /\ pc' = "returned"
    /\ ev' = Ev("return", 0, "")
    /\ UNCHANGED <<runner, pool, num, set, index, wrong, current_question, prog, file,
                   now, initial, rnd, missed, reviewOf, answered, card, origin, aux>>

DrawNext ==
    \/ DrawStep
    \/ DrawReturn

DrawSpec == DrawInit /\ [][DrawNext]_vars

----------------------------------------------------------------------------
(* Weight specification: srs_weight applied to stored and freshly scheduled cards *)

\* due dates a stored card can carry, in seconds around tick 0: none, 6, 5, 4
\* days and 1 day ago, one second short of a day ago, now, in a second, tomorrow
WeighDues ==
    {None, Some(0 - 6 * Day), Some(0 - 5 * Day), Some(0 - 4 * Day), Some(0 - Day),
     Some(1 - Day), Some(0), Some(1), Some(Day)}

WeighCards ==
    {[box |-> b, correct_streak |-> 0, incorrect_count |-> 0,
      last_seen |-> None, due |-> d] : b \in 1..MaxBox, d \in WeighDues}

\* a second stored card to compare with: no due date, 5 days or 1 day overdue
WeighOthers ==
    {[box |-> b, correct_streak |-> 0, incorrect_count |-> 0,
      last_seen |-> None, due |-> d] :
        b \in 1..MaxBox, d \in {None, Some(0 - 5 * Day), Some(0 - Day)}}

\* question 3 is the one being answered: stored in any box, or not stored yet
WeighStores ==
    {[q \in {1, 2} |-> IF q = 1 THEN a ELSE b] : a \in WeighCards, b \in WeighOthers}
    \cup {[q \in {1, 2, 3} |-> IF q = 1 THEN a ELSE IF q = 2 THEN b ELSE c] :
                a \in WeighCards, b \in WeighOthers, c \in LoadedCards}

WeighInit ==
    /\ runner = "weigher"
    /\ pc = "cards"
    /\ pool = <<1, 2, 3>>
    /\ prog \in WeighStores
    /\ now = 0
    /\ w = <<>>
    /\ answered = 0
    /\ num = 0
    /\ file = Missing
    /\ set = <<>>
    /\ index = 0
    /\ wrong = <<>>
    /\ current_question = None
    /\ initial = <<>>
    /\ rnd = 0
    /\ missed = <<>>
    /\ reviewOf = <<>>
    /\ ev = Ev("init", 0, "")
    /\ card = DefaultCard
    /\ origin = "default"
    /\ draw = NoDraw
    /\ scored = <<>>
    /\ app_state = <<>>
    /\ cookie = <<>>
    /\ poolfile = <<>>
    /\ hist = <<>>
    /\ gamestate = <<>>

\* st = prog.get("3", CardState()); st.promote() or st.demote(); prog["3"] = st
WeighAnswer(ok) ==
    /\ runner = "weigher"
    /\ pc = "cards"
    /\ answered < MaxSchedules
    /\ \E d \in CardSkews :
          /\ prog' = Put(prog, 3, IF ok THEN Promote(Get(prog, 3), now, now + d)
                                   ELSE Demote(Get(prog, 3), now, now + d))
          /\ now' = now + d
    /\ answered' = answered + 1
    /\ ev' = Ev(IF ok THEN "promote" ELSE "demote", 3, "")
    /\ UNCHANGED <<runner, pc, pool, num, set, index, wrong, current_question, file,
                   initial, rnd, missed, reviewOf, card, origin, aux>>

\* time passes
WeighTick ==
    /\ runner = "weigher"
    /\ pc = "cards"
    /\ now < MaxCardNow
    /\ now' = now + 1
    /\ ev' = Ev("tick", 0, "")
    /\ UNCHANGED <<runner, pc, pool, num, set, index, wrong, current_question, prog,
                   file, initial, rnd, missed, reviewOf, answered, card, origin, aux>>

\* weights = [srs_weight(q.id, prog) for q in qs]
Weigh ==
    /\ runner = "weigher"
    /\ pc = "cards"
    /\ \E d \in CardSkews :
          /\ w' = [i \in 1..Len(pool) |-> SrsWeight(pool[i], prog, now, now + d)]
          /\ now' = now + d
    /\ pc' = "weighed"
    /\ ev' = Ev("weigh", 0, "")
    /\ UNCHANGED <<runner, pool, num, set, index, wrong, current_question, prog, file,
                   initial, rnd, missed, reviewOf, answered, card, origin, draw, scored,
                   app_state, cookie, poolfile, hist, gamestate>>

WeighNext ==
    \/ \E ok \in BOOLEAN : WeighAnswer(ok)
    \/ WeighTick
    \/ Weigh

WeighSpec == WeighInit /\ [][WeighNext]_vars

----------------------------------------------------------------------------
(* Review selector specification: choose_special_set applied to bounded inputs *)

\* missed three times; mastered; new; box 3 and overdue; box 3 and due in a second
SpecialCards ==
    {[box |-> 1, correct_streak |-> 0, incorrect_count |-> 3, last_seen |-> None, due |-> None],
     [box |-> 5, correct_streak |-> 0, incorrect_count |-> 0, last_seen |-> None, due |-> None],
     [box |-> 1, correct_streak |-> 0, incorrect_count |-> 0, last_seen |-> None, due |-> None],
     [box |-> 3, correct_streak |-> 0, incorrect_count |-> 0, last_seen |-> None, due |-> Some(0)],
     [box |-> 3, correct_streak |-> 0, incorrect_count |-> 0, last_seen |-> None, due |-> Some(1)]}

SpecialStores ==
    UNION {[ids -> SpecialCards] : ids \in SUBSET QIds}

\* the clock reads of the scoring loop: one per question, never going back
SpecialReads(len) ==
    {r \in [1..len -> 0..MaxCardNow] : \A i \in 1..(len - 1) : r[i] <= r[i + 1]}

SpecialInit ==
    /\ runner = "special"
    /\ pc = "input"
    /\ pool \in SelPools
    /\ num \in 0..(MaxNum + 1)
    /\ prog \in SpecialStores
    /\ now = 0
    /\ scored = <<>>
    /\ set = <<>>
    /\ file = Missing
    /\ index = 0
    /\ wrong = <<>>
    /\ current_question = None
    /\ initial = <<>>
    /\ rnd = 0
    /\ missed = <<>>
    /\ reviewOf = <<>>
    /\ answered = 0
    /\ ev = Ev("init", 0, "")
    /\ card = DefaultCard
    /\ origin = "default"
    /\ w = <<>>
    /\ draw = NoDraw
    /\ app_state = <<>>
    /\ cookie = <<>>
    /\ poolfile = <<>>
    /\ hist = <<>>
    /\ gamestate = <<>>

\* set = choose_special_set(pool, num, prog)
SelectSpecial ==
    /\ runner = "special"
    /\ pc = "input"
    /\ \E reads \in SpecialReads(Len(pool)) :
          LET tfill == IF reads = <<>> THEN now ELSE reads[Len(reads)]
          IN  /\ scored' = SpecialScored(pool, prog, reads)
              /\ set' \in ChooseSpecialSet(pool, num, prog, reads, tfill)
              /\ now' = tfill
    \* qs is only read: `scored` and `remaining` are lists of their own
    /\ pool' = pool
    /\ prog' = AfterLookups(prog, pool)
    /\ pc' = "special"
    /\ ev' = Ev("special", 0, "")
    /\ UNCHANGED <<runner, num, index, wrong, current_question, file,
                   initial, rnd, missed, reviewOf, answered, card, origin, w, draw,
                   app_state, cookie, poolfile, hist, gamestate>>

SpecialNext == SelectSpecial

SpecialSpec == SpecialInit /\ [][SpecialNext]_vars

----------------------------------------------------------------------------
(* Both selectors applied to bounded inputs *)

BothInit == SelInit \/ SpecialInit

BothNext == Select \/ SelectSpecial

BothSpec == BothInit /\ [][BothNext]_vars

----------------------------------------------------------------------------
(* Web server specification: webgui.py with the sessions of two browsers *)

\* the browsers; the session id a browser holds is modelled by the browser
Clients == {1, 2}

Other(c) == 3 - c

\* 'builtin' and two uploaded pools: "up" holds one question of its own,
\* "empty" is a file load_questions reads no question from
PoolIds == {"builtin", "up", "empty"}

Uploaded == <<MaxPool + 1>>

\* pool = BUILTIN[:] or load_questions(meta['path'])
PoolQuestions(pid) ==
    IF pid = "builtin" THEN BUILTIN ELSE IF pid = "up" THEN Uploaded ELSE <<>>

\* the labels posted in this specification: right for some question, wrong for it
SessChoices == {"A", "B"}

\* the `10` pools_special passes to choose_special_set and stores as 'num'
SpecialNum == 10

\* the per-pool file after end(): existing = json.load(...) or {}, then
\* existing.update(new_prog) and json.dump; a stored value that is no object
\* fails the update, and the file stays as it is
Merge(existing, new) ==
    IF existing.kind = "list" THEN existing
    ELSE LET old == IF existing.kind = "object" THEN existing.entries ELSE <<>>
         IN  JsonObject([k \in DOMAIN old \cup DOMAIN new.entries |->
                           IF k \in DOMAIN new.entries THEN new.entries[k] ELSE old[k]])

\* app_state[sid] = {'pool': ..., 'num': ..., 'index': 0, 'set': ..., 'wrong': [], 'progress': ...}
SessionState(p, n, s, store) ==
    [pool |-> p, num |-> n, index |-> 0, set |-> s, wrong |-> <<>>, progress |-> store]

\* faulty variant: one state object behind every session id
SetSessionShared(app, sid, st) ==
    [k \in DOMAIN app |-> IF k = sid \/ app[k] # None THEN Some(st) ELSE None]

\* the writes through `state = app_state[sid]`: only the entry of sid changes
SetSession(app, sid, st) == [app EXCEPT ![sid] = Some(st)]

NoHistory == [phase |-> "none", touched |-> {}, saved |-> EmptyStore, pid |-> ""]

\* history of a session that starts now for browser c from pool id pid
Started(c, pid) ==
    [by |-> [hist.by EXCEPT ![c] = [phase |-> "active", touched |-> {},
                                    saved |-> EmptyStore, pid |-> pid]],
     overlap |-> (hist.by[Other(c)].phase = "active"),
     starts |-> hist.starts + 1,
     specials |-> hist.specials]

SessInit ==
    /\ runner = "server"
    /\ pc = "serving"
    /\ file \in InitFiles
    /\ poolfile = [pid \in PoolIds |-> Missing]
    /\ app_state = [c \in Clients |-> None]
    /\ cookie = [c \in Clients |-> [sid |-> None, pool_id |-> None]]
    /\ hist = [by |-> [c \in Clients |-> NoHistory], overlap |-> FALSE, starts |-> 0,
               specials |-> 0]
    /\ gamestate = <<>>
    /\ now = 0
    /\ answered = 0
    /\ ev = [op |-> "init", client |-> 0, q |-> 0, label |-> ""]
    /\ pool = <<>>
    /\ num = 0
    /\ prog = EmptyStore
    /\ set = <<>>
    /\ index = 0
    /\ wrong = <<>>
    /\ current_question = None
    /\ initial = <<>>
    /\ rnd = 0
    /\ missed = <<>>
    /\ reviewOf = <<>>
    /\ card = DefaultCard
    /\ origin = "default"
    /\ w = <<>>
    /\ draw = NoDraw
    /\ scored = <<>>

\* POST /start from browser c without a file: p is the filtered built-in pool
SessStart(c, p, n) ==
    /\ runner = "server"
    /\ hist.starts < MaxStarts
    /\ IF p = <<>>
       THEN /\ ev' = [op |-> "no_questions", client |-> c, q |-> 0, label |-> ""]
            /\ UNCHANGED <<app_state, cookie, hist>>
       ELSE /\ \E s \in ChooseExamSet(p, n, LoadProgress(file), now) :
                  app_state' = SetSession(app_state, c,
                                          SessionState(p, n, s, LoadProgress(file)))
            /\ cookie' = [cookie EXCEPT ![c].sid = Some(c)]
            /\ hist' = Started(c, "")
            /\ ev' = [op |-> "start", client |-> c, q |-> 0, label |-> ""]
    /\ UNCHANGED <<runner, pc, pool, num, set, index, wrong, current_question, prog,
                   file, now, initial, rnd, missed, reviewOf, answered, card, origin,
                   w, draw, scored, poolfile, gamestate>>

\* POST /pools/<pid>/start from browser c
SessPoolsStart(c, pid, n) ==
    /\ runner = "server"
    /\ hist.starts < MaxStarts
    /\ LET p == PoolQuestions(pid)
           store == IF pid = "builtin" THEN LoadProgress(file)
                    ELSE LoadProgress(poolfile[pid])
       IN  \E s \in ChooseExamSet(p, n, store, now) :
              app_state' = SetSession(app_state, c, SessionState(p, n, s, store))
    /\ cookie' = [cookie EXCEPT ![c] = [sid |-> Some(c), pool_id |-> Some(pid)]]
    /\ hist' = Started(c, pid)
    /\ ev' = [op |-> "start", client |-> c, q |-> 0, label |-> ""]
    /\ UNCHANGED <<runner, pc, pool, num, set, index, wrong, current_question, prog,
                   file, now, initial, rnd, missed, reviewOf, answered, card, origin,
                   w, draw, scored, poolfile, gamestate>>

\* compute_stats_for_pool(meta) is left by an exception: the stored value has
\* no items(), or an entry has no get()
StatsRaises(content) ==
    \/ content.kind = "list"
    \/ content.kind = "object" /\ \E k \in DOMAIN content.entries : ~content.entries[k].isobj

\* compute_stats_for_pool(meta)['wrong_count'], read from data/progress_<id>.json
WrongCount(content) ==
    IF content.kind # "object" THEN 0
    ELSE Cardinality({k \in DOMAIN content.entries :
                         LET m == content.entries[k].members
                         IN  /\ "incorrect_count" \in DOMAIN m
                             /\ m.incorrect_count.v > 0})

\* GET /pools/<pid>/special from browser c
SessPoolsSpecial(c, pid) ==
    /\ runner = "server"
    /\ hist.specials < MaxSpecials
    /\ IF StatsRaises(poolfile[pid])
       THEN /\ ev' = [op |-> "error", client |-> c, q |-> 0, label |-> ""]
            /\ UNCHANGED <<app_state, cookie, hist>>
       ELSE IF WrongCount(poolfile[pid]) = 0
       THEN /\ ev' = [op |-> "nothing_to_review", client |-> c, q |-> 0, label |-> ""]
            /\ UNCHANGED <<app_state, cookie, hist>>
       ELSE LET qs == PoolQuestions(pid)
                store == IF pid = "builtin" THEN LoadProgress(file)
                         ELSE LoadProgress(poolfile[pid])
                reads == [i \in 1..Len(qs) |-> now]
            IN  /\ \E s \in ChooseSpecialSet(qs, SpecialNum, store, reads, now) :
                      app_state' = SetSession(app_state, c,
                                              SessionState(qs, SpecialNum, s, store))
                /\ cookie' = [cookie EXCEPT ![c] = [sid |-> Some(c), pool_id |-> Some(pid)]]
                /\ hist' = [by |-> [hist.by EXCEPT ![c] = [phase |-> "active", touched |-> {},
                                                           saved |-> EmptyStore, pid |-> pid]],
                            overlap |-> (hist.by[Other(c)].phase = "active"),
                            starts |-> hist.starts,
                            specials |-> hist.specials + 1]
                /\ ev' = [op |-> "special", client |-> c, q |-> 0, label |-> ""]
    /\ UNCHANGED <<runner, pc, pool, num, set, index, wrong, current_question, prog,
                   file, now, initial, rnd, missed, reviewOf, answered, card, origin,
                   w, draw, scored, poolfile, gamestate>>

\* GET or POST /question from browser c, which holds a session
SessQuestion(c, method, choice) ==
    /\ runner = "server"
    /\ cookie[c].sid # None
    /\ app_state[c] # None
    /\ LET state == app_state[c][1]
       IN  IF state.index >= Len(state.set)
           THEN IF state.wrong # <<>>
                THEN LET nx == WebReview(state.wrong, state.index)
                     IN  /\ app_state' = SetSession(app_state, c,
                                [state EXCEPT !.set = nx.set, !.wrong = nx.wrong,
                                              !.index = nx.index])
                         /\ ev' = [op |-> "review", client |-> c, q |-> 0, label |-> ""]
                         /\ UNCHANGED <<answered, hist, gamestate>>
                ELSE /\ ev' = [op |-> "complete", client |-> c, q |-> 0, label |-> ""]
                     /\ UNCHANGED <<app_state, answered, hist, gamestate>>
           ELSE LET q == state.set[state.index + 1]
                IN  IF method = "POST"
                    THEN LET r == WebSubmit(state.progress, state.wrong, state.index,
                                            q, choice, now, now)
                         IN  /\ answered < MaxSessAnswers
                             /\ answered' = answered + 1
                             /\ app_state' = SetSession(app_state, c,
                                    [state EXCEPT !.progress = r.prog, !.wrong = r.wrong,
                                                  !.index = r.index])
                             /\ hist' = [hist EXCEPT !.by[c].touched = @ \cup {q}]
                             /\ gamestate' = GamestateAfter(gamestate, c,
                                                             choice = Answer(q), now)
                             /\ ev' = [op |-> "submit", client |-> c, q |-> q,
                                       label |-> choice]
                    ELSE /\ ev' = [op |-> QuestionOutcome(method), client |-> c, q |-> q,
                                       label |-> ""]
                         /\ UNCHANGED <<app_state, answered, hist, gamestate>>
    /\ UNCHANGED <<runner, pc, pool, num, set, index, wrong, current_question, prog,
                   file, now, initial, rnd, missed, reviewOf, card, origin,
                   w, draw, scored, cookie, poolfile>>

\* GET /end from browser c, which holds a session
SessEnd(c) ==
    /\ runner = "server"
    /\ cookie[c].sid # None
    /\ app_state[c] # None
    /\ LET state == app_state[c][1]
           saved == SaveProgress(state.progress)
       IN  /\ file' = saved
           /\ poolfile' = IF cookie[c].pool_id # None
                           THEN [poolfile EXCEPT ![cookie[c].pool_id[1]] = Merge(@, saved)]
                           ELSE poolfile
           /\ hist' = [hist EXCEPT !.by[c].phase = "ended", !.by[c].saved = state.progress]
    /\ app_state' = [app_state EXCEPT ![c] = None]
    /\ cookie' = [cookie EXCEPT ![c] = [sid |-> None, pool_id |-> None]]
    /\ ev' = [op |-> "end", client |-> c, q |-> 0, label |-> ""]
    /\ UNCHANGED <<runner, pc, pool, num, set, index, wrong, current_question, prog,
                   now, initial, rnd, missed, reviewOf, answered, card, origin,
                   w, draw, scored>>
    /\ gamestate' = GamestateAtEnd(gamestate, c, now)

SessNext ==
    \/ \E c \in Clients, p \in SubSeqs(BUILTIN), n \in 1..MaxNum : SessStart(c, p, n)
    \/ \E c \in Clients, pid \in PoolIds, n \in 1..MaxNum : SessPoolsStart(c, pid, n)
    \/ \E c \in Clients, pid \in PoolIds : SessPoolsSpecial(c, pid)
    \/ \E c \in Clients, m \in {"GET", "POST"}, ch \in SessChoices :
          SessQuestion(c, m, ch)
    \/ \E c \in Clients : SessEnd(c)

SessSpec == SessInit /\ [][SessNext]_vars

----------------------------------------------------------------------------
(* Persistence specification: save_progress and load_progress on one path *)

StoreBoxes == {1, 3, 5}

StoreCards ==
    {[box |-> b, correct_streak |-> c, incorrect_count |-> i, last_seen |-> l, due |-> d] :
        b \in StoreBoxes, c \in {0, 1}, i \in {0, 2},
        l \in {None, Some(0)}, d \in {None, Some(Day)}}

\* the Progress Stores handed to save_progress: any set of ids
StoreStores == UNION {[ids -> StoreCards] : ids \in SUBSET QIds}

\* the members of a stored entry: all five, some of them, none, or one that
\* CardState does not know
StoreMembers ==
    {AsDict(OldCard).members,
     <<>>,
     [box |-> JNum(3)],
     [box |-> JNum(3), due |-> JIso(Day)],
     [incorrect_count |-> JNum(2), last_seen |-> JText],
     [box |-> JNum(3), extra |-> JNum(1)]}

StoreEntries == {JOther} \cup {JObject(m) : m \in StoreMembers}

\* what load_progress can find at the path
StoreFiles ==
    {Missing, NotJson, JsonList}
        \cup {JsonObject(e) : e \in UNION {[ids -> StoreEntries] : ids \in SUBSET QIds}}

StoreInit ==
    /\ runner = "store"
    /\ pc = "fresh"
    /\ \/ prog \in StoreStores /\ file = Missing
       \/ prog = EmptyStore /\ file \in StoreFiles
    /\ pool = BUILTIN
    /\ num = 0
    /\ set = <<>>
    /\ index = 0
    /\ wrong = <<>>
    /\ current_question = None
    /\ now = 0
    /\ initial = <<>>
    /\ rnd = 0
    /\ missed = <<>>
    /\ reviewOf = <<>>
    /\ answered = 0
    /\ ev = Ev("init", 0, "")
    /\ card = DefaultCard
    /\ origin = "default"
    /\ AuxInit

\* save_progress(fp, prog)
StoreSave ==
    /\ runner = "store"
    /\ pc # "raised"
    /\ file' = SaveProgress(prog)
    /\ pc' = "saved"
    /\ ev' = Ev("save", 0, "")
    /\ UNCHANGED <<runner, pool, num, set, index, wrong, current_question, prog,
                   now, initial, rnd, missed, reviewOf, answered, card, origin, aux>>

\* prog = load_progress(fp)
StoreLoad ==
    /\ runner = "store"
    /\ pc # "raised"
    /\ LET r == LoadProgressResult(file)
       IN  IF r.raised
           THEN pc' = "raised" /\ prog' = prog
           ELSE pc' = "loaded" /\ prog' = r.out
    /\ ev' = Ev("load", 0, "")
    /\ UNCHANGED <<runner, pool, num, set, index, wrong, current_question, file,
                   now, initial, rnd, missed, reviewOf, answered, card, origin, aux>>

StoreNext ==
    \/ StoreSave
    \/ StoreLoad

StoreSpec == StoreInit /\ [][StoreNext]_vars

----------------------------------------------------------------------------
(* Stored-state specification: a session built on whatever load_progress      *)
(* returned from a stored file                                                *)

\* stored boxes: below the table of srs_weight, inside it, above it
LoadedBoxes == {0, 2, 6}

\* stored due values: none, a day ago, a text that is no timestamp
LoadedDues == {JNull, JIso(0 - Day), JText}

LoadedEntries ==
    {JObject([box |-> JNum(b), incorrect_count |-> JNum(i), due |-> d]) :
        b \in LoadedBoxes, i \in {0, 1}, d \in LoadedDues}

LoadedFiles ==
    {JsonObject(e) : e \in UNION {[ids -> LoadedEntries] : ids \in SUBSET QIds}}

LoadedInit ==
    /\ runner = "loaded"
    /\ pc = "loaded"
    /\ file \in LoadedFiles
    /\ prog = LoadProgress(file)
    /\ pool = BUILTIN
    /\ num = 0
    /\ set = <<>>
    /\ index = 0
    /\ wrong = <<>>
    /\ current_question = None
    /\ now = 0
    /\ initial = <<>>
    /\ rnd = 0
    /\ missed = <<>>
    /\ reviewOf = <<>>
    /\ answered = 0
    /\ ev = Ev("init", 0, "")
    /\ card = DefaultCard
    /\ origin = "default"
    /\ AuxInit

\* a session start: set = choose_exam_set(pool, n, prog); w records the weights
LoadedStart(n) ==
    /\ runner = "loaded"
    /\ pc = "loaded"
    /\ IF ChooseExamSetRaises(pool, prog)
       THEN /\ pc' = "raised"
            /\ UNCHANGED <<set, w, index, wrong, num>>
       ELSE /\ w' = [i \in 1..Len(pool) |-> SrsWeight(pool[i], prog, now, now)]
            /\ set' \in ChooseExamSet(pool, n, prog, now)
            /\ num' = n
            /\ index' = 0
            /\ wrong' = <<>>
            /\ pc' = "question"
    /\ ev' = Ev("select", 0, "")
    /\ UNCHANGED <<runner, pool, current_question, prog, file, now, initial, rnd,
                   missed, reviewOf, answered, card, origin, draw, scored,
                   app_state, cookie, poolfile, hist, gamestate>>

\* a review session start: set = choose_special_set(pool, n, prog)
LoadedSpecial(n) ==
    /\ runner = "loaded"
    /\ pc = "loaded"
    /\ LET reads == [i \in 1..Len(pool) |-> now]
           sorted == SortDesc(SpecialScored(pool, prog, reads))
           chosen == [i \in 1..Min(n, Len(sorted)) |-> sorted[i].q]
       IN  IF Len(chosen) < n /\ ChooseExamSetRaises(SpecialRemaining(pool, chosen), prog)
           THEN /\ pc' = "raised"
                /\ UNCHANGED <<set, scored, index, wrong, num>>
           ELSE /\ scored' = SpecialScored(pool, prog, reads)
                /\ set' \in ChooseSpecialSet(pool, n, prog, reads, now)
                /\ num' = n
                /\ index' = 0
                /\ wrong' = <<>>
                /\ pc' = "question"
    /\ ev' = Ev("special", 0, "")
    /\ UNCHANGED <<runner, pool, current_question, prog, file, now, initial, rnd,
                   missed, reviewOf, answered, card, origin, w, draw,
                   app_state, cookie, poolfile, hist, gamestate>>

\* the question at the cursor is answered: promote() or demote() on its card
LoadedAnswer(choice) ==
    /\ runner = "loaded"
    /\ pc = "question"
    /\ index < Len(set)
    /\ LET q == set[index + 1]
           r == WebSubmit(prog, wrong, index, q, choice, now, now)
       IN  /\ prog' = r.prog
           /\ wrong' = r.wrong
           /\ index' = r.index
           /\ ev' = Ev("submit", q, choice)
    /\ answered' = answered + 1
    /\ UNCHANGED <<runner, pc, pool, num, set, current_question, file, now, initial,
                   rnd, missed, reviewOf, card, origin, aux>>

LoadedNext ==
    \/ \E n \in 1..MaxNum : LoadedStart(n)
    \/ \E n \in 1..(MaxNum + 1) : LoadedSpecial(n)
    \/ \E choice \in SessChoices : LoadedAnswer(choice)

LoadedSpec == LoadedInit /\ [][LoadedNext]_vars

----------------------------------------------------------------------------
(* Gamification specification: two runs of the web runner that start from    *)
(* the same session state, receive the same requests and differ in gamestate *)

Runs == {1, 2}

\* faulty variant: the answer of a user ranked Master or above always counts as correct
QuestionRanked(state, g, uid, method, choice, t) ==
    IF state.index >= Len(state.set)
    THEN IF state.wrong # <<>>
         THEN LET nx == WebReview(state.wrong, state.index)
              IN  [state |-> [state EXCEPT !.set = nx.set, !.wrong = nx.wrong,
                                           !.index = nx.index],
                   g |-> g]
         ELSE [state |-> state, g |-> g]
    ELSE IF method = "POST"
         THEN LET q == state.set[state.index + 1]
                  taken == IF LoadGamestate(g, uid).points >= 1000 THEN Answer(q)
                           ELSE choice
                  r == WebSubmit(state.progress, state.wrong, state.index, q, taken, t, t)
              IN  [state |-> [state EXCEPT !.progress = r.prog, !.wrong = r.wrong,
                                           !.index = r.index],
                   g |-> GamestateAfter(g, uid, choice = Answer(q), t)]
         ELSE [state |-> state, g |-> g]

\* question() for the session state `state` of user uid: the session state and
\* the gamestate files it leaves
Question(state, g, uid, method, choice, t) ==
    IF state.index >= Len(state.set)
    THEN IF state.wrong # <<>>
         THEN LET nx == WebReview(state.wrong, state.index)
              IN  [state |-> [state EXCEPT !.set = nx.set, !.wrong = nx.wrong,
                                           !.index = nx.index],
                   g |-> g]
         ELSE [state |-> state, g |-> g]
    ELSE IF method = "POST"
         THEN LET q == state.set[state.index + 1]
                  r == WebSubmit(state.progress, state.wrong, state.index, q, choice, t, t)
              IN  [state |-> [state EXCEPT !.progress = r.prog, !.wrong = r.wrong,
                                           !.index = r.index],
                   g |-> GamestateAfter(g, uid, choice = Answer(q), t)]
         ELSE [state |-> state, g |-> g]

\* stored gamestates: points below and above rank thresholds, a wrong streak,
\* none and a correct streak, last active yesterday or never
GameStates ==
    {[points |-> p, rank |-> Rank(p), answer_streak |-> a, daily_streak |-> d,
      last_active |-> l, history |-> <<>>] :
        p \in {0, 95, 1490}, a \in {0 - 2, 0, 3}, d \in {0, 5},
        l \in {None, Some(0 - Day)}}

GameInit ==
    /\ runner = "game"
    /\ pc = "serving"
    /\ file \in InitFiles
    /\ \E s \in ChooseExamSet(BUILTIN, MaxNum, LoadProgress(file), 0) :
          app_state = [r \in Runs |->
                          Some(SessionState(BUILTIN, MaxNum, s, LoadProgress(file)))]
    /\ gamestate \in [Runs -> GameStates]
    /\ now = 0
    /\ answered = 0
    /\ ev = Ev("init", 0, "")
    /\ pool = BUILTIN
    /\ num = MaxNum
    /\ prog = EmptyStore
    /\ set = <<>>
    /\ index = 0
    /\ wrong = <<>>
    /\ current_question = None
    /\ initial = <<>>
    /\ rnd = 0
    /\ missed = <<>>
    /\ reviewOf = <<>>
    /\ card = DefaultCard
    /\ origin = "default"
    /\ w = <<>>
    /\ draw = NoDraw
    /\ scored = <<>>
    /\ cookie = <<>>
    /\ poolfile = <<>>
    /\ hist = <<>>

\* the same request to /question reaches both runs
GameQuestion(method, choice) ==
    /\ runner = "game"
    /\ method = "POST" => answered < MaxAnswers
    /\ app_state' = [r \in Runs |->
                       Some(Question(app_state[r][1], gamestate, r, method, choice,
                                     now).state)]
    /\ gamestate' = [r \in Runs |->
                       Question(app_state[r][1], gamestate, r, method, choice, now).g[r]]
    /\ answered' = IF method = "POST" THEN answered + 1 ELSE answered
    /\ ev' = Ev(method, 0, choice)
    /\ UNCHANGED <<runner, pc, pool, num, set, index, wrong, current_question, prog,
                   file, now, initial, rnd, missed, reviewOf, card, origin,
                   w, draw, scored, cookie, poolfile, hist>>

GameNext == \E m \in {"GET", "POST"}, c \in SessChoices : GameQuestion(m, c)

GameSpec == GameInit /\ [][GameNext]_vars

----------------------------------------------------------------------------
(* Properties *)

\* the question at the cursor
AtCursor == set[index + 1]

\* C1: in the terminal and web runners an answer with a label in {A,B,C,D}
\* promotes the card of the question at the cursor and leaves the miss queue
\* alone when the label is the question's answer, otherwise demotes the card
\* and appends the question once to the miss queue; either way the cursor
\* advances by exactly 1 and the card is stored under the question's id.
C1_SubmitAnswer ==
    [][(ev'.op = "submit" /\ ev'.label \in Labels /\ runner \in {"terminal", "web"})
        => LET q == AtCursor
               old == Get(prog, q)
           IN  /\ ev'.q = q
               /\ index' = index + 1
               /\ q \in DOMAIN prog'
               /\ DOMAIN prog' = DOMAIN prog \cup {q}
               /\ \A k \in DOMAIN prog : k # q => prog'[k] = prog[k]
               /\ IF ev'.label = Answer(q)
                  THEN /\ prog'[q].box = Min(5, old.box + 1)
                       /\ prog'[q].correct_streak = old.correct_streak + 1
                       /\ prog'[q].incorrect_count = old.incorrect_count
                       /\ wrong' = wrong
                  ELSE /\ prog'[q].box = 1
                       /\ prog'[q].correct_streak = 0
                       /\ prog'[q].incorrect_count = old.incorrect_count + 1
                       /\ wrong' = Append(wrong, q)]_vars

\* a second miss in the web runner: the miss queue holds two questions
C1_Witness ==
    /\ runner = "web"
    /\ ev.op = "submit"
    /\ ev.label \in Labels
    /\ ev.label # Answer(ev.q)
    /\ Len(wrong) = 2
    /\ index = 2
    /\ prog[ev.q].box = 1

C3_Done ==
    pc = "done"
        => /\ index >= Len(set)
           /\ wrong = <<>>
           /\ \A q \in Range(initial) :
                 /\ q \in DOMAIN prog
                 /\ prog[q].box >= 2
                 /\ prog[q].correct_streak >= 1

\* DONE after a review pass, every front end
C3_Witness ==
    /\ pc = "done"
    /\ rnd >= 2
    /\ Len(initial) = 2
    /\ \E q \in Range(initial) : prog[q].incorrect_count >= 1

\* C4: on a card created with defaults box stays in 1..5 through promote()
\* and demote(); promote() at box 5 leaves box at 5 and still sets due to
\* now + 14 days.
C4_BoxRange ==
    [][/\ origin = "default" => card'.box \in 1..5
       /\ (ev'.op = "promote" /\ card.box = 5)
            => /\ card'.box = 5
               /\ card'.due = Some((now \div Res) + 14 * Day)]_vars

\* a default card promoted once more after it reached box 5
C4_Witness ==
    /\ origin = "default"
    /\ ev.op = "promote"
    /\ ev.q = 5
    /\ card.box = 5
    /\ card.correct_streak = 5

\* C5: demote() sets box to 1 and correct_streak to 0, adds exactly 1 to
\* incorrect_count and sets due to the time of the call, whatever the box was.
C5_Demote ==
    [][ev'.op = "demote"
        => /\ card'.box = 1
           /\ card'.correct_streak = 0
           /\ card'.incorrect_count = card.incorrect_count + 1
           /\ card'.due = Some(now \div Res)]_vars

\* a card demoted from box 5
C5_Witness ==
    /\ ev.op = "demote"
    /\ ev.q = 5
    /\ card.box = 1
    /\ card.incorrect_count >= 1

\* the interval table of the claim
C6_IntervalDays(b) ==
    CASE b = 2 -> 1 [] b = 3 -> 3 [] b = 4 -> 7 [] b = 5 -> 14

\* C6: promote() adds exactly 1 to correct_streak, sets box to min(5, box+1),
\* leaves incorrect_count alone and sets due to now plus the interval of the
\* new box (2: 1 day, 3: 3 days, 4: 7 days, 5: 14 days).
C6_Promote ==
    [][ev'.op = "promote"
        => /\ card'.correct_streak = card.correct_streak + 1
           /\ card'.box = Min(5, card.box + 1)
           /\ card'.incorrect_count = card.incorrect_count
           /\ card'.due = Some((now \div Res) + C6_IntervalDays(card'.box) * Day)]_vars

\* a card promoted from box 2 to box 3 after the clock has moved
C6_Witness ==
    /\ ev.op = "promote"
    /\ ev.q = 2
    /\ card.box = 3
    /\ card.due = Some(1 + 3 * Day)

\* C7: incorrect_count of a card of the Progress Store changes only in a step
\* that demotes that card, where it grows by exactly 1; selecting the session
\* set changes no card, save_progress writes and load_progress reads every
\* count as it is.
C7_IncorrectCount ==
    [][/\ ev'.op \notin {"start", "end"}
            => \A q \in QIds :
                  Get(prog', q).incorrect_count # Get(prog, q).incorrect_count
                      => /\ ev'.op = "submit"
                         /\ ev'.q = q
                         /\ ev'.label # Answer(q)
                         /\ Get(prog', q).incorrect_count
                                = Get(prog, q).incorrect_count + 1
       /\ (ev'.op = "start" /\ runner \in {"terminal", "web"})
            => /\ DOMAIN prog' = DOMAIN LoadProgress(file)
               /\ \A q \in DOMAIN prog' :
                     prog'[q].incorrect_count = LoadProgress(file)[q].incorrect_count
       /\ file' # file
            => \E saved \in {prog, prog'} :
                  /\ DOMAIN LoadProgress(file') = DOMAIN saved
                  /\ \A q \in DOMAIN saved :
                        LoadProgress(file')[q].incorrect_count
                            = saved[q].incorrect_count]_vars

\* the loaded card was missed once more and the store was saved
C7_Witness ==
    /\ 1 \in DOMAIN LoadProgress(file)
    /\ LoadProgress(file)[1].incorrect_count = 2
    /\ ev.op \in {"complete", "end", "save"}

\* C8 as claimed: after promote() or demote() due is last_seen plus the
\* applied interval (0 days after demote, the interval of the new box after
\* promote), so due is never before last_seen.
C8_DueFromLastSeen ==
    ev.op \in {"promote", "demote"}
        => /\ card.due # None /\ card.last_seen # None
           /\ card.due[1] = card.last_seen[1]
                  + (IF ev.op = "demote" THEN 0 ELSE Intervals[card.box]) * Day
           /\ card.due[1] >= card.last_seen[1]

\* C9 as claimed: a label outside {A,B,C,D} changes neither the Progress
\* Store, the miss queue nor the cursor, in the terminal and in the web runner.
C9_BadLabelRejected ==
    [][(ev'.op = "submit" /\ ev'.label \notin Labels)
        => UNCHANGED <<prog, wrong, index, file>>]_vars

\* C10: for a pool of distinct ids choose_exam_set returns min(n, k)
\* questions, all from the pool, none twice, and the empty sequence for n = 0
\* or an empty pool.
C10_ExamSet ==
    pc = "selected"
        => /\ Len(set) = Min(num, Len(pool))
           /\ Range(set) \subseteq Range(pool)
           /\ NoDuplicates(set)
           /\ (num = 0 \/ pool = <<>>) => set = <<>>

\* one question drawn out of two, and not the first of the pool
C10_Witness ==
    /\ pc = "selected"
    /\ Len(pool) = 2
    /\ num = 1
    /\ set = <<pool[2]>>

\* C11: in every draw the selected candidate is the first remaining candidate,
\* in pool order, whose cumulative weight reaches or exceeds r = u * total,
\* where total is the sum of the weights still remaining; the candidate and its
\* weight are removed, so the sum of the weights left is total minus its weight.
C11_Draw ==
    [][ev'.op = "draw"
        => LET i == draw'.idx
               total == draw'.total
               u == draw'.u
           IN  /\ total = SumSeq(w)
               /\ i \in 1..Len(pool)
               /\ Cumulative(w, i) * Grain >= u * total
               /\ \A j \in 1..(i - 1) : Cumulative(w, j) * Grain < u * total
               /\ set' = Append(set, pool[i])
               /\ Len(pool') = Len(pool) - 1
               /\ Len(w') = Len(w) - 1
               /\ \A j \in 1..Len(pool') :
                     /\ pool'[j] = (IF j < i THEN pool[j] ELSE pool[j + 1])
                     /\ w'[j] = (IF j < i THEN w[j] ELSE w[j + 1])
               /\ SumSeq(w') = total - w[i]]_vars

\* a first draw out of two candidates that stopped at the first one, whose
\* weight is exactly r
C11_Witness ==
    /\ runner = "sampler"
    /\ ev.op = "draw"
    /\ Len(set) = 1
    /\ Len(w) = 1
    /\ draw.idx = 1
    /\ draw.u > 0
    /\ (draw.total - w[1]) * Grain = draw.u * draw.total

\* st was scheduled by the promote()/demote() call just made, at second t
C12_Fresh(st, t) ==
    /\ ev.op \in {"promote", "demote"}
    /\ st.last_seen = Some(IsoFormat(t))
    /\ st.due = Some(IsoFormat(t) + Intervals[st.box] * Day)

\* C12 as claimed: weighed at the same 'now', a card whose due is in the past
\* weighs strictly more than a card of the same box that promote()/demote()
\* has just scheduled at that 'now', for every box 1..5.
C12_OverdueBeatsFresh ==
    [][ev'.op = "weigh"
        => \A a \in {1, 2} :
              (/\ 3 \in DOMAIN prog
               /\ prog[a].box = prog[3].box
               /\ prog[a].due # None
               /\ FromIso(prog[a].due[1]) < now
               /\ C12_Fresh(prog[3], now))
                  => w'[a] > w'[3]]_vars

\* whole days from due to the clock read t
C13_Days(st, t) == (t - FromIso(st.due[1])) \div (Day * Res)

\* the bonus of the claim, in tenths: t1 is the clock read compared with due,
\* t2 the clock read the days are counted from
C13_Bonus10(st, t1, t2) ==
    IF st.due = None \/ FromIso(st.due[1]) > t1
    THEN 10
    ELSE 10 + Min(10, 2 * (C13_Days(st, t2) + 1))

\* C13: the overdue bonus is 1.0 when due is absent or strictly in the future,
\* otherwise 1.0 + min(1.0, 0.2 * (d + 1)) with d the whole days from due to
\* now; it never exceeds 2.0, is 2.0 from 5 days overdue on and does not
\* decrease as d grows.
C13_OverdueBonus ==
    [][ev'.op = "weigh"
        => \A i \in 1..Len(pool) :
              LET st == Get(prog, pool[i])
                  base == BaseWeight[st.box]
              IN  /\ w'[i] * 10 = base * C13_Bonus10(st, now, now')
                  /\ w'[i] <= 2 * base
                  /\ (st.due # None /\ FromIso(st.due[1]) <= now
                         /\ C13_Days(st, now') >= 5)
                        => w'[i] = 2 * base
                  /\ \A j \in 1..Len(pool) :
                        LET su == Get(prog, pool[j])
                        IN  (/\ su.box = st.box
                             /\ st.due # None /\ FromIso(st.due[1]) <= now
                             /\ su.due # None /\ FromIso(su.due[1]) <= now
                             /\ C13_Days(st, now') <= C13_Days(su, now'))
                                => w'[i] <= w'[j]]_vars

\* weighed together: a card 6 days overdue at twice its base weight, a card of
\* the same box 1 day overdue at 1.4 times, and a card whose due is still ahead
C13_Witness ==
    /\ pc = "weighed"
    /\ prog[1].due = Some(0 - 6 * Day)
    /\ prog[2].due = Some(0 - Day)
    /\ prog[1].box = prog[2].box
    /\ w[1] = 2 * BaseWeight[prog[1].box]
    /\ w[2] * 10 = 14 * BaseWeight[prog[2].box]
    /\ 3 \in DOMAIN prog
    /\ prog[3].due # None
    /\ FromIso(prog[3].due[1]) > now
    /\ w[3] = BaseWeight[prog[3].box]

\* the base weights of the claim, in hundredths
C14_Base(b) ==
    CASE b = 1 -> 100 [] b = 2 -> 60 [] b = 3 -> 35 [] b = 4 -> 20 [] b = 5 -> 10

\* C14: srs_weight is base_weight[box] * overdue_bonus with base weights 1.0,
\* 0.6, 0.35, 0.2, 0.1; an id without an entry in the Progress Store weighs
\* 1.0; of two cards with the same due the one in the higher box weighs
\* strictly less.
C14_Weight ==
    [][ev'.op = "weigh"
        => \A i \in 1..Len(pool) :
              LET st == Get(prog, pool[i])
              IN  /\ w'[i] * 10 = C14_Base(st.box) * C13_Bonus10(st, now, now')
                  /\ pool[i] \notin DOMAIN prog => w'[i] = 100
                  /\ \A j \in 1..Len(pool) :
                        LET su == Get(prog, pool[j])
                        IN  (st.due = su.due /\ st.box < su.box) => w'[i] > w'[j]]_vars

\* an id without a card weighed with two overdue cards of boxes 4 and 5
C14_Witness ==
    /\ pc = "weighed"
    /\ 3 \notin DOMAIN prog
    /\ w[3] = 100
    /\ prog[1].box = 4
    /\ prog[2].box = 5
    /\ prog[1].due = Some(0 - Day)
    /\ prog[2].due = Some(0 - Day)
    /\ w[1] = 28
    /\ w[2] = 14

\* position of question q in the pool, and the score choose_special_set gave it
PoolPos(q) == CHOOSE i \in 1..Len(pool) : pool[i] = q

ScoreOf(q) == scored[PoolPos(q)].score

\* C15: choose_special_set scores a question incorrect_count * 3 + (6 - box),
\* plus 2 when the clock has reached its due date, and every question it
\* returns scores at least as high as every pool question it leaves out.
C15_TopScores ==
    pc = "special"
        => /\ \A i \in 1..Len(pool) :
                 LET st == Get(prog, pool[i])
                 IN  scored[i].score
                        = st.incorrect_count * 3 + (6 - st.box)
                            + (IF st.due # None /\ scored[i].t >= st.due[1] * Res
                               THEN 2 ELSE 0)
           /\ \A q \in Range(set) : q \in Range(pool)
           /\ \A q \in Range(set) :
                 \A r \in Range(pool) \ Range(set) : ScoreOf(q) >= ScoreOf(r)
           /\ (num >= 1 /\ pool # <<>>) => set # <<>>

\* top-1 of a mastered card and, behind it in the pool, a card missed three
\* times in box 1: the second one is returned
C15_Witness ==
    /\ pc = "special"
    /\ pool = <<1, 2>>
    /\ num = 1
    /\ DOMAIN prog = {1, 2}
    /\ prog[1].box = 5 /\ prog[1].incorrect_count = 0
    /\ prog[2].box = 1 /\ prog[2].incorrect_count = 3
    /\ set = <<2>>

\* C16: the output of choose_special_set is in descending order of score,
\* questions of equal score keep their pool order, and of the questions tied
\* at the cut-off the ones earlier in the pool are returned.
C16_StableOrder ==
    pc = "special"
        => /\ \A i, j \in 1..Len(set) :
                 i < j => /\ ScoreOf(set[i]) >= ScoreOf(set[j])
                          /\ ScoreOf(set[i]) = ScoreOf(set[j])
                                => PoolPos(set[i]) < PoolPos(set[j])
           /\ \A q \in Range(set) :
                 \A r \in Range(pool) \ Range(set) :
                    ScoreOf(q) = ScoreOf(r) => PoolPos(q) < PoolPos(r)

\* two different cards with the same score and room for one: the first of the
\* pool is returned
C16_Witness ==
    /\ pc = "special"
    /\ pool = <<2, 1>>
    /\ num = 1
    /\ DOMAIN prog = {1, 2}
    /\ prog[1] # prog[2]
    /\ scored[1].score = scored[2].score
    /\ set = <<2>>

\* C17: for a pool of distinct ids and n >= 0 choose_special_set returns
\* min(n, |pool|) questions of the pool, none of them twice, also when n is
\* larger than the pool and the fill step runs.
C17_SpecialDistinct ==
    pc = "special"
        => /\ Len(set) = Min(num, Len(pool))
           /\ NoDuplicates(set)
           /\ Range(set) \subseteq Range(pool)

\* three questions asked of a pool of two: the fill step ran and added nothing
C17_Witness ==
    /\ pc = "special"
    /\ Len(pool) = 2
    /\ num > Len(pool)
    /\ Len(set) = 2
    /\ set[1] # set[2]

\* C18 as claimed: no request to the web server removes a question id from a
\* persisted Progress Store, be it course_progress.json or a per-pool file.
C18_NeverEvicted ==
    [][/\ \A q \in DOMAIN LoadProgress(file) : q \in DOMAIN LoadProgress(file')
       /\ \A pid \in PoolIds :
             \A q \in DOMAIN LoadProgress(poolfile[pid]) :
                q \in DOMAIN LoadProgress(poolfile'[pid])]_vars

\* the persisted store the sessions of pool id pid are loaded from
C19_StoreOf(pid) ==
    LoadProgress(IF pid \in PoolIds \ {"builtin"} THEN poolfile[pid] ELSE file)

\* C19 as claimed: when the sessions of two browsers were both started before
\* either ended and both have ended and saved, every card that one of them
\* changed (and the other did not) is in the persisted store as that session
\* left it.
C19_BothSaved ==
    (/\ hist.by[1].phase = "ended"
     /\ hist.by[2].phase = "ended"
     /\ hist.overlap)
        => \A c \in Clients :
              \A q \in hist.by[c].touched \ hist.by[Other(c)].touched :
                 /\ q \in DOMAIN C19_StoreOf(hist.by[c].pid)
                 /\ C19_StoreOf(hist.by[c].pid)[q] = hist.by[c].saved[q]

\* C20: an answer posted in the session of one browser leaves the entry of
\* the other browser's session in app_state (progress, set, miss queue and
\* cursor) as it was.
C20_Isolated ==
    [][ev'.op = "submit"
        => app_state'[Other(ev'.client)] = app_state[Other(ev'.client)]]_vars

\* both browsers hold a session on the same question, both have answered it,
\* one right and one wrong, the second answer just now
C20_Witness ==
    /\ runner = "server"
    /\ ev.op = "submit"
    /\ app_state[1] # None
    /\ app_state[2] # None
    /\ app_state[1][1].set = app_state[2][1].set
    /\ app_state[1][1].index = 1
    /\ app_state[2][1].index = 1
    /\ app_state[1][1].wrong # app_state[2][1].wrong
    /\ app_state[1][1].progress # app_state[2][1].progress

\* C21: a Progress Store written by save_progress and read back by
\* load_progress from the same path has the same ids, and every card has the
\* same box, correct_streak, incorrect_count, last_seen and due.
C21_RoundTrip ==
    [][(ev.op = "save" /\ ev'.op = "load")
         => /\ pc' = "loaded"
            /\ DOMAIN prog' = DOMAIN prog
            /\ \A q \in DOMAIN prog :
                  /\ prog'[q].box = prog[q].box
                  /\ prog'[q].correct_streak = prog[q].correct_streak
                  /\ prog'[q].incorrect_count = prog[q].incorrect_count
                  /\ prog'[q].last_seen = prog[q].last_seen
                  /\ prog'[q].due = prog[q].due]_vars

\* a store of two cards, one with timestamps and one without, was saved and
\* read back
C21_Witness ==
    /\ ev.op = "load"
    /\ file.kind = "object"
    /\ DOMAIN prog = {1, 2}
    /\ prog[1].box = 5 /\ prog[1].due = Some(Day) /\ prog[1].last_seen = Some(0)
    /\ prog[2].box = 1 /\ prog[2].due = None /\ prog[2].last_seen = None

\* the entries of an object found at the path that CardState(**v) accepts
C22_Accepted(content) ==
    /\ content.kind = "object"
    /\ \A k \in DOMAIN content.entries :
          /\ content.entries[k].isobj
          /\ DOMAIN content.entries[k].members \subseteq FieldNames

\* C22: load_progress never raises; a missing file gives the empty mapping,
\* unparseable content or an entry with an unknown field gives the empty
\* mapping, and an entry that lacks fields is loaded with the default of each
\* field it lacks.
C22_LoadFailSoft ==
    [][ev'.op = "load"
         => /\ pc' # "raised"
            /\ file.kind = "missing" => prog' = EmptyStore
            /\ ~C22_Accepted(file) => prog' = EmptyStore
            /\ C22_Accepted(file)
                 => /\ DOMAIN prog' = DOMAIN file.entries
                    /\ \A k \in DOMAIN file.entries :
                          LET m == file.entries[k].members
                          IN  /\ \A f \in FieldNames \ DOMAIN m :
                                    prog'[k][f] = DefaultCard[f]
                              /\ \A f \in DOMAIN m \cap {"box", "correct_streak",
                                                         "incorrect_count"} :
                                    prog'[k][f] = m[f].v]_vars

\* an entry without box, correct_streak and due was loaded with their defaults
C22_Witness ==
    /\ ev.op = "load"
    /\ file.kind = "object"
    /\ \E k \in DOMAIN prog :
          /\ DOMAIN file.entries[k].members = {"incorrect_count", "last_seen"}
          /\ prog[k].incorrect_count = 2
          /\ prog[k].box = 1
          /\ prog[k].due = None

\* C23 as claimed: a session built on any mapping load_progress returned from
\* a stored file (a box outside 1..5, a due text that is no timestamp) is set
\* up and answered without an error.
C23_NeverAborts == pc # "raised"

\* C30: a card whose due text is no timestamp counts as not overdue; srs_weight
\* gives it exactly the base weight of its box, and choose_special_set scores
\* it incorrect_count * 3 + (6 - box), without the 2 of an overdue card.
C30_GarbledDue ==
    [][/\ (ev'.op = "select" /\ pc' # "raised")
            => \A i \in 1..Len(pool) :
                  Get(prog, pool[i]).due = Garbled
                      => w'[i] = BaseWeight[Get(prog, pool[i]).box]
       /\ (ev'.op = "special" /\ pc' # "raised")
            => \A i \in 1..Len(pool) :
                  Get(prog, pool[i]).due = Garbled
                      => scored'[i].score
                            = Get(prog, pool[i]).incorrect_count * 3
                                + (6 - Get(prog, pool[i]).box)]_vars

\* a session was selected from a pool holding a box-2 card with an unparseable
\* due: it weighs 0.6
C30_Witness ==
    /\ ev.op = "select"
    /\ pc = "question"
    /\ \E i \in 1..Len(pool) :
          /\ Get(prog, pool[i]).due = Garbled
          /\ Get(prog, pool[i]).box = 2
          /\ w[i] = 60

\* C24 as claimed: a start request on an empty question pool creates no
\* session: no entry of app_state is set up for it, and the caller is told
\* that there are no questions.
C24_NoSessionOnEmptyPool ==
    [][\A c \in Clients :
          (app_state'[c] # None /\ app_state'[c] # app_state[c])
              => app_state'[c][1].pool # <<>>]_vars

\* C25: with a selected set of distinct ids, in every session state the miss
\* queue holds no question twice, every question in it stands in the current
\* sequence before the cursor, and the sequence of a review pass is drawn
\* from the sequence of the pass before it.
C25_MissQueue ==
    [][/\ NoDuplicates(wrong')
       /\ \A i \in 1..Len(wrong') :
             \E j \in 1..Min(index', Len(set')) : set'[j] = wrong'[i]
       /\ (rnd' = rnd + 1 /\ ev'.op # "start")
            => /\ Range(set') \subseteq Range(set)
               /\ NoDuplicates(set')]_vars

\* a question was missed again in a review pass
C25_Witness ==
    /\ rnd = 2
    /\ wrong # <<>>
    /\ NoDuplicates(initial)
    /\ Len(initial) = 2

C27_NonInterference ==
    /\ app_state[1][1].progress = app_state[2][1].progress
    /\ app_state[1][1].wrong = app_state[2][1].wrong
    /\ app_state[1][1].set = app_state[2][1].set
    /\ app_state[1][1].index = app_state[2][1].index

\* after a wrong answer the two users differ in points, streak and rank
C27_Witness ==
    /\ answered >= 2
    /\ app_state[1][1].index >= 1
    /\ app_state[1][1].wrong # <<>>
    /\ gamestate[1].points # gamestate[2].points
    /\ gamestate[1].rank # gamestate[2].rank
    /\ gamestate[1].answer_streak # gamestate[2].answer_streak

\* C28: when every question of the pool has the same weight, the standard
\* selector selects each pool member with approximately equal frequency: over
\* the equally likely values of random.random(), the share of the calls that
\* select a member differs from k / m (k questions selected from a pool of m)
\* by at most k / Grain, the granularity of random.random() once per draw.
C28_Uniform ==
    (/\ pc = "counted"
     /\ \A i, j \in 1..Len(pool) : w[i] = w[j])
    => LET k == Min(num, Len(pool))
           m == Len(pool)
           runs == Cardinality(RandomRuns(pool, num))
       IN  /\ {DrawWith(pool, w, us) : us \in RandomRuns(pool, num)}
                 = ChooseExamSet(pool, num, prog, now)
           /\ \A q \in Range(pool) :
                 Abs(hist[q] * m - runs * k) * Grain <= k * runs * m

\* one question was selected from two equally weighted stored cards, each of
\* them in some of the trials
C28_Witness ==
    /\ pc = "counted"
    /\ Len(pool) = 2
    /\ num = 1
    /\ DOMAIN prog = Range(pool)
    /\ w[1] = w[2]
    /\ w[1] # 100
    /\ hist[pool[1]] > 0
    /\ hist[pool[2]] > 0

\* the number of correct answers at the end of a list of answers
RECURSIVE C29_Streak(_)
C29_Streak(as) ==
    IF as = <<>> \/ ~as[Len(as)] THEN 0
    ELSE 1 + C29_Streak(SubSeq(as, 1, Len(as) - 1))

\* the number of incorrect answers of a list of answers
C29_Misses(as) == Cardinality({i \in 1..Len(as) : ~as[i]})

\* C29: for a card created with defaults, after any sequence of answers
\* applied through a runner, correct_streak is the number of consecutive
\* correct answers since the last incorrect one (or since creation) and
\* incorrect_count is the number of incorrect answers the card was ever given.
C29_StreakAndMisses ==
    \A q \in DOMAIN hist :
        hist[q].fresh
            => /\ q \in DOMAIN prog
               /\ prog[q].correct_streak = C29_Streak(hist[q].answers)
               /\ prog[q].incorrect_count = C29_Misses(hist[q].answers)

\* a card made with defaults was answered correctly, then missed, then
\* answered correctly again
C29_Witness ==
    \E q \in DOMAIN hist :
        /\ hist[q].fresh
        /\ hist[q].answers = <<TRUE, FALSE, TRUE>>
        /\ prog[q].correct_streak = 1
        /\ prog[q].incorrect_count = 1

\* C31 as claimed: once a session has reached DONE (cursor at the end, miss
\* queue empty), a further answer submission changes no Card State, appends
\* nothing to the miss queue and does not move the cursor, in the desktop and
\* the web runner.
C31_DoneIsTerminal ==
    [][(/\ runner \in {"gui", "web"}
        /\ pc = "done"
        /\ ev'.op \in {"submit", "complete"})
          => /\ prog' = prog
             /\ wrong' = wrong
             /\ index' = index]_vars

\* C32 as claimed: when the user of the terminal runner quits with 'q' in the
\* middle of a round, the Card State changes made by the answers given so far
\* are in the progress file.
C32_QuitSaves ==
    (runner = "terminal" /\ pc = "quit") => LoadProgress(file) = prog

\* C33 as claimed: the per-pool progress file written by /end is the one of
\* the pool the ending session's questions were drawn from; a session started
\* from the home page writes into no per-pool file.
C33_EndWritesOwnPool ==
    [][ev'.op = "end"
         => \A pid \in PoolIds :
               poolfile'[pid] # poolfile[pid] => hist.by[ev'.client].pid = pid]_vars

\* C34 as claimed: a special-review session is created only if the progress
\* the session is built from holds at least one card with incorrect_count > 0.
C34_SpecialNeedsMisses ==
    [][ev'.op = "special"
         => LET store == app_state'[ev'.client][1].progress
            IN  \E q \in DOMAIN store : store[q].incorrect_count > 0]_vars

\* the place of the i-th recorded answer in its run of answers of one kind
RECURSIVE C35_PlaceInRun(_, _)
C35_PlaceInRun(h, i) ==
    IF i = 1 \/ h[i - 1].reason # h[i].reason THEN 1
    ELSE 1 + C35_PlaceInRun(h, i - 1)

\* C35: in the web runner the k-th answer of a run of correct answers awards
\* 10 * 2^(k-1) points and the k-th answer of a run of incorrect answers
\* awards -(2^k) points, an answer of the other kind starting a new run at
\* k = 1; answer_streak is the length of the run in progress, positive in a
\* correct run and negative in an incorrect one; every posted answer is
\* recorded by its kind.
C35_PointsRule ==
    /\ [](runner = "web" /\ WebUser \in DOMAIN gamestate
            => LET gs == gamestate[WebUser]
                   h == gs.history
               IN  /\ \A i \in 1..Len(h) :
                         h[i].delta = IF h[i].reason = "correct"
                                      THEN 10 * Pow2(C35_PlaceInRun(h, i) - 1)
                                      ELSE 0 - Pow2(C35_PlaceInRun(h, i))
                   /\ gs.answer_streak =
                         IF h = <<>> THEN 0
                         ELSE IF h[Len(h)].reason = "correct"
                         THEN C35_PlaceInRun(h, Len(h))
                         ELSE 0 - C35_PlaceInRun(h, Len(h))
                   /\ gs.points = SumSeq([i \in 1..Len(h) |-> h[i].delta]))
    /\ [][runner = "web" /\ ev'.op = "submit"
            => LET h == LoadGamestate(gamestate, WebUser).history
                   hn == gamestate'[WebUser].history
               IN  /\ Len(hn) = Len(h) + 1
                   /\ SubSeq(hn, 1, Len(h)) = h
                   /\ hn[Len(hn)].reason = IF ev'.label = Answer(ev'.q)
                                           THEN "correct" ELSE "incorrect"]_vars

\* three correct answers in a row were awarded 10, 20 and 40 points
C35_Witness ==
    /\ runner = "web"
    /\ WebUser \in DOMAIN gamestate
    /\ gamestate[WebUser].answer_streak = 3
    /\ gamestate[WebUser].points = 70
    /\ Len(gamestate[WebUser].history) = 3

\* an incorrect run of two after a correct answer: 10 - 2 - 4 points
C35_WitnessMisses ==
    /\ runner = "web"
    /\ WebUser \in DOMAIN gamestate
    /\ gamestate[WebUser].answer_streak = 0 - 2
    /\ gamestate[WebUser].points = 4

\* C36 as claimed: in the web runner a GET for the current question, with the
\* cursor before the end of the sequence, completes without an error and
\* leaves the session's progress, set, miss queue and cursor unchanged.
C36_GetShowsQuestion ==
    [][(/\ runner = "web"
        /\ pc = "active"
        /\ index < Len(set)
        /\ ev'.op \notin {"submit", "start", "end", "no_questions"})
          => /\ ev'.op = "show"
             /\ UNCHANGED <<prog, set, wrong, index>>]_vars

\* C37: every Card State reached from the defaults by promote() and demote()
\* calls has box = min(5, 1 + correct_streak).
C37_BoxFromStreak ==
    (runner = "card" /\ origin = "default")
        => card.box = Min(5, 1 + card.correct_streak)

\* a card that was demoted and then promoted past the cap: streak 5 in box 5
C37_Witness ==
    /\ runner = "card"
    /\ origin = "default"
    /\ card.incorrect_count >= 1
    /\ card.correct_streak = 5
    /\ card.box = 5
    /\ ev.op = "promote"

\* C38: selection is read-only: choose_exam_set and choose_special_set leave
\* the Progress Store as it was (no entry is created for a question that has
\* none, no field is modified) and leave the caller's pool list with the same
\* members in the same order.
C38_SelectionReadOnly ==
    [][ev'.op \in {"select", "special"} => (prog' = prog /\ pool' = pool)]_vars

\* choose_exam_set selected from a pool with a question the store has no entry for
C38_Witness ==
    /\ pc = "selected"
    /\ Len(pool) = 2
    /\ Len(set) >= 1
    /\ DOMAIN prog # {}
    /\ \E i \in 1..Len(set) : set[i] \notin DOMAIN prog

\* choose_special_set selected likewise, its fill step reached
C38_WitnessSpecial ==
    /\ pc = "special"
    /\ Len(pool) = 2
    /\ num > Len(pool)
    /\ \E i \in 1..Len(set) : set[i] \notin DOMAIN prog

\* C39: for every Card State with box in 1..5 the srs weight is strictly
\* positive, so the total weight of every non-empty pool is positive and
\* choose_exam_set never takes the zero-total branch that shuffles the
\* caller's list.
C39_PositiveWeights ==
    (runner = "weigher" /\ \A q \in DOMAIN prog : prog[q].box \in 1..5)
        => /\ \A q \in Range(pool) : SrsWeight(q, prog, now, now) > 0
           /\ pc = "weighed" => \A i \in 1..Len(w) : w[i] > 0
           /\ \A qs \in SubSeqs(pool) :
                 qs # <<>> => /\ TotalWeight(qs, prog, now) > 0
                              /\ ~ZeroTotal(qs, prog, now)
                              /\ ListAfterChooseExamSet(qs, prog, now) = {qs}

\* the weights of a pool were computed with a card in box 5 that is not due
\* yet, the least weight there is
C39_Witness ==
    /\ runner = "weigher"
    /\ pc = "weighed"
    /\ \E i \in 1..Len(pool) :
          /\ pool[i] \in DOMAIN prog
          /\ prog[pool[i]].box = 5
          /\ w[i] = 10
    /\ \E q \in DOMAIN prog : prog[q].box = 1

====
